---- MODULE Spec2Model ----
(***************************************************************************)
(* Model of cldf_meta: reading CLDF tables out of zip archives             *)
(* (clld_meta/zipdata.py) and collecting per-archive statistics            *)
(* (cldfbench_clld_meta.py).                                               *)
(*                                                                         *)
(* Strings are sequences of atoms (<<"b", ".csv">> is "b.csv"), so that    *)
(* startswith / endswith / slicing / concatenation are computed on the     *)
(* string and not looked up.  Paths (pathlib.Path) are sequences of        *)
(* segments, each segment a string.  JSON scalars are records [k, n, s].   *)
(***************************************************************************)
EXTENDS Integers, Sequences, FiniteSets, TLC

\* ------------------------------------------------------------------ bounds
\* longest CSV file (raw rows) enumerated for the row pipeline
MaxRows == 3
\* largest number of leading whitespace bytes of a JSON stream
MaxWs == 10
\* largest number of entries of an archive given to stats_from_zip
MaxEntries == 3

\* ------------------------------------------------------- python primitives
Min(a, b) == IF a <= b THEN a ELSE b
MaxOf(S) == CHOOSE x \in S : \A y \in S : y <= x
MinOf(S) == CHOOSE x \in S : \A y \in S : x <= y
Range(s) == {s[i] : i \in DOMAIN s}
Reverse_bug(s) == s
RECURSIVE Reverse(_)
Reverse(s) == IF s = <<>> THEN <<>> ELSE Append(Reverse(Tail(s)), Head(s))

\* a one-atom string
S(x) == <<x>>

StartsWith(s, p) == Len(s) >= Len(p) /\ SubSeq(s, 1, Len(p)) = p
EndsWith(s, p) == Len(s) >= Len(p) /\ SubSeq(s, Len(s) - Len(p) + 1, Len(s)) = p

\* JSON scalars as Python sees them
JNull == [k |-> "null", n |-> 0, s |-> ""]
JBool(b) == [k |-> "bool", n |-> IF b THEN 1 ELSE 0, s |-> ""]
JNum(i) == [k |-> "num", n |-> i, s |-> ""]
JStr(x) == [k |-> "str", n |-> 0, s |-> x]
PyNone == JNull
\* bool(v)
Truthy(v) == CASE v.k = "null" -> FALSE
               [] v.k = "bool" -> v.n = 1
               [] v.k = "num" -> v.n # 0
               [] v.k = "str" -> v.s # ""
\* v == w  (True == 1 in Python)
PyEq(v, w) == CASE v.k \in {"bool", "num"} -> w.k \in {"bool", "num"} /\ v.n = w.n
                [] v.k = "str" -> w.k = "str" /\ v.s = w.s
                [] v.k = "null" -> w.k = "null"

\* ------------------------------------------------------------ pathlib.Path
\* Path(s): split at "/", drop empty and "." segments, keep ".." segments
RECURSIVE SplitSegs(_, _, _)
SplitSegs(s, i, cur) ==
    LET done == IF cur = <<>> \/ cur = <<".">> THEN <<>> ELSE <<cur>>
    IN  IF i > Len(s) THEN done
        ELSE IF s[i] = "/" THEN done \o SplitSegs(s, i + 1, <<>>)
        ELSE SplitSegs(s, i + 1, Append(cur, s[i]))
PathOf(s) == SplitSegs(s, 1, <<>>)
\* root / relpath for a relative relpath
PathJoin(root, s) == root \o PathOf(s)
\* Path.parent: the parent of the archive root "." is "."
PathParent(p) == IF p = <<>> THEN <<>> ELSE SubSeq(p, 1, Len(p) - 1)
\* Path.name
PathName(p) == IF p = <<>> THEN <<>> ELSE p[Len(p)]

\* --------------------------------------------------------------- constants
TERMS_URL == "http://cldf.clld.org/v1.0/terms.rdf"
\* f'{TERMS_URL}#{name}'
TermUrl(name) == <<TERMS_URL, "#">> \o name
\* table types and properties of the CLDF ontology used by the code
ValueTable == S("ValueTable")
FormTable == S("FormTable")
EntryTable == S("EntryTable")
ExampleTable == S("ExampleTable")
LanguageTable == S("LanguageTable")
id == S("id")
languageReference == S("languageReference")
parameterReference == S("parameterReference")
glottocode == S("glottocode")
iso639P3code == S("iso639P3code")
\* an absent or empty propertyUrl / dc:conformsTo (both fail the truth test)
NoUrl == <<>>

\* ------------------------------------------------------------------ dialect
\* the dialect fields iterrows reads
Fields == {"commentPrefix", "delimiter", "doubleQuote", "encoding", "header",
           "headerRowCount", "quoteChar", "skipBlankRows", "skipColumns",
           "skipRows", "skipInitialSpace", "trim"}
\* a dialect object without keys; also what an absent "dialect" key yields
EmptyMap == [x \in {} |-> JNull]

default_dialect ==
    [commentPrefix |-> JStr("#"), delimiter |-> JStr(","),
     doubleQuote |-> JBool(TRUE), encoding |-> JStr("utf-8"),
     header |-> JBool(TRUE), quoteChar |-> JStr("\""),
     skipBlankRows |-> JBool(FALSE), skipColumns |-> JNum(0),
     skipRows |-> JNum(0), skipInitialSpace |-> JBool(FALSE)]

\* ChainMap.get(key): the first mapping holding the key decides
RECURSIVE ChainGet_bug(_, _)
ChainGet_bug(maps, key) ==
    IF maps = <<>> THEN PyNone
    ELSE IF key \in DOMAIN Head(maps) THEN Head(maps)[key]
    ELSE IF Len(maps) > 1 /\ Head(maps) # EmptyMap
    THEN ChainGet_bug(<<maps[Len(maps)]>>, key)
    ELSE ChainGet_bug(Tail(maps), key)
RECURSIVE ChainGet(_, _)
ChainGet(maps, key) ==
    IF maps = <<>> THEN PyNone
    ELSE IF key \in DOMAIN Head(maps) THEN Head(maps)[key]
    ELSE ChainGet(Tail(maps), key)

\* dialect = ChainMap(table.get('dialect', {}), dataset_dialect, default_dialect)
ResolveDialect(table, md) ==
    [f \in Fields |-> ChainGet(<<table.dialect, md.dialect, default_dialect>>, f)]

\* the two assert statements: header truthy, and hrc is None or hrc != 1
HeaderAccepted(d) == Truthy(d["header"])
HeaderRowCountAccepted(d) ==
    d["headerRowCount"] = PyNone \/ ~PyEq(d["headerRowCount"], JNum(1))

\* a falsy trim treated like an absent one
TrimLeft_bug(d) ==
    IF Truthy(d["trim"])
    THEN \E v \in {JBool(TRUE), JStr("true"), JStr("start")} : PyEq(d["trim"], v)
    ELSE Truthy(d["skipInitialSpace"])
\* trim in {True, 'true', 'start'} / {True, 'true', 'end'}, else skipInitialSpace
TrimLeft(d) ==
    IF d["trim"] # PyNone
    THEN \E v \in {JBool(TRUE), JStr("true"), JStr("start")} : PyEq(d["trim"], v)
    ELSE Truthy(d["skipInitialSpace"])
TrimRight(d) ==
    IF d["trim"] # PyNone
    THEN \E v \in {JBool(TRUE), JStr("true"), JStr("end")} : PyEq(d["trim"], v)
    ELSE FALSE

\* escapechar: None without quoteChar or with doubleQuote, else a backslash
EscapeChar(d) ==
    IF d["quoteChar"] = PyNone THEN PyNone
    ELSE IF Truthy(d["doubleQuote"]) THEN PyNone
    ELSE JStr("\\")
\* csv.reader's own defaults for the parameters the call leaves out
CsvDefaults == [quotechar |-> JStr("\""), quoting |-> "QUOTE_MINIMAL"]
\* csv.reader(decoder, doublequote=dialect['doubleQuote'],
\*            delimiter=dialect['delimiter'], skipinitialspace=trim_left,
\*            escapechar=escapechar): the parser's configuration
CsvReader(d) ==
    [quotechar |-> CsvDefaults.quotechar,
     quoting |-> CsvDefaults.quoting,
     doublequote |-> d["doubleQuote"],
     delimiter |-> d["delimiter"],
     skipinitialspace |-> TrimLeft(d),
     escapechar |-> EscapeChar(d)]

\* ------------------------------------------------------------ archive model
\* one entry of ZipFile.infolist(): its name and what its bytes hold
CsvEntry(fn, rows) ==
    [filename |-> fn, kind |-> "csv", rows |-> rows, inner |-> <<>>, stream |-> <<>>]
\* a nested archive; inner is its own infolist of [filename, rows]
ZipEntry(fn, inner) ==
    [filename |-> fn, kind |-> "zip", rows |-> <<>>, inner |-> inner, stream |-> <<>>]
\* a file holding the byte stream f (see get_cldf_json below)
JsonEntry(fn, f) ==
    [filename |-> fn, kind |-> "json", rows |-> <<>>, inner |-> <<>>, stream |-> <<f>>]
Inner(fn, rows) == [filename |-> fn, rows |-> rows]

\* file_tree = {Path(info.filename): info for info in zip.infolist()}
\* (a later entry with the same path replaces an earlier one)
FileTree(zf) ==
    [p \in {PathOf(zf[i].filename) : i \in DOMAIN zf} |->
        MaxOf({i \in DOMAIN zf : PathOf(zf[i].filename) = p})]
\* dict.get: the entry's index, 0 for None
InfoGet(infos, p) == IF p \in DOMAIN infos THEN infos[p] ELSE 0

\* get_table: index of the first table whose dc:conformsTo is the url; 0 when
\* it raises ValueError
GetTable_bug(md, name) ==
    LET hits == {i \in DOMAIN md.tables :
                   StartsWith(md.tables[i].conformsTo, <<TERMS_URL, "#">>)}
    IN  IF hits = {} THEN 0 ELSE MinOf(hits)
GetTable(md, name) ==
    LET hits == {i \in DOMAIN md.tables : md.tables[i].conformsTo = TermUrl(name)}
    IN  IF hits = {} THEN 0 ELSE MinOf(hits)

\* an `if` in place of the `while`: one parent segment is consumed
StripParents_bug(relpath, root) ==
    IF StartsWith(relpath, <<"..", "/">>)
    THEN [relpath |-> SubSeq(relpath, 3, Len(relpath)), root |-> PathParent(root)]
    ELSE [relpath |-> relpath, root |-> root]
\* while relpath.startswith('../'): relpath, root = relpath[3:], root.parent
RECURSIVE StripParents(_, _)
StripParents(relpath, root) ==
    IF StartsWith(relpath, <<"..", "/">>)
    THEN StripParents(SubSeq(relpath, 3, Len(relpath)), PathParent(root))
    ELSE [relpath |-> relpath, root |-> root]

\* zip_infos.get(root / relpath_zip) or zip_infos.get(root / relpath)
Locate_bug(infos, root, url) ==
    LET r == StripParents(url, root)
        plain == InfoGet(infos, PathJoin(r.root, r.relpath))
    IN  IF plain # 0 THEN plain
        ELSE InfoGet(infos, PathJoin(r.root, r.relpath \o <<".zip">>))
Locate(infos, root, url) ==
    LET r == StripParents(url, root)
        zipped == InfoGet(infos, PathJoin(r.root, r.relpath \o <<".zip">>))
    IN  IF zipped # 0 THEN zipped
        ELSE InfoGet(infos, PathJoin(r.root, r.relpath))

\* ------------------------------------------------------------- row pipeline
\* any(row): some cell of the row is non-empty
AnyCell(row) == \E i \in DOMAIN row : row[i] # <<>>

\* skip_comments keeps a row iff: not row or not row[0].startswith(comment_str)
IsComment(row, d) ==
    /\ Truthy(d["commentPrefix"])
    /\ row # <<>>
    /\ StartsWith(row[1], S(d["commentPrefix"].s))

\* skip_columns: row[skip_count:] when skip_count > 0
DropColumns(row, d) ==
    IF d["skipColumns"].n > 0
    THEN SubSeq(row, Min(d["skipColumns"].n, Len(row)) + 1, Len(row))
    ELSE row

\* One next() on the filter chain skip_rows -> trim_column_ends ->
\* skip_blank_rows -> skip_comments -> skip_columns, reading csv.reader rows
\* `rows` of which `pos` are consumed.  `first` is the first pull, on which
\* islice consumes the skipRows leading rows.  trim_column_ends calls
\* row.rstrip() on the list csv.reader returns, which raises AttributeError.
RECURSIVE PullRow(_, _, _, _)
PullRow(rows, pos, d, first) ==
    LET skip == IF first /\ d["skipRows"].n > 0 THEN d["skipRows"].n ELSE 0
        p == Min(pos + skip, Len(rows))
    IN  IF p >= Len(rows) THEN [st |-> "end", row |-> <<>>, pos |-> Len(rows)]
        ELSE IF TrimRight(d)
             THEN [st |-> "AttributeError", row |-> <<>>, pos |-> p + 1]
        ELSE IF Truthy(d["skipBlankRows"]) /\ ~AnyCell(rows[p + 1])
             THEN PullRow(rows, p + 1, d, FALSE)
        ELSE IF IsComment(rows[p + 1], d)
             THEN PullRow(rows, p + 1, d, FALSE)
        ELSE [st |-> "row", row |-> DropColumns(rows[p + 1], d), pos |-> p + 1]

\* name_map = {col['name']: col_urls[purl] for col in column_specs
\*             if (purl := col.get('propertyUrl')) and purl in col_urls}
NameMap_bug(column_specs, names) ==
    LET tagged == {i \in DOMAIN column_specs :
                     column_specs[i].propertyUrl # NoUrl}
    IN  [h \in {column_specs[i].name : i \in tagged} |->
           LET j == MaxOf({i \in tagged : column_specs[i].name = h})
           IN  SubSeq(column_specs[j].propertyUrl, 3, Len(column_specs[j].propertyUrl))]
NameMap(column_specs, names) ==
    LET match == {i \in DOMAIN column_specs :
                    /\ column_specs[i].propertyUrl # NoUrl
                    /\ \E c \in Range(names) : TermUrl(c) = column_specs[i].propertyUrl}
    IN  [h \in {column_specs[i].name : i \in match} |->
           LET j == MaxOf({i \in match : column_specs[i].name = h})
           IN  CHOOSE c \in Range(names) : TermUrl(c) = column_specs[j].propertyUrl]

\* header = [name_map.get(orig_name, orig_name) for orig_name in next(row_i, ())]
RenameHeader(column_specs, names, raw) ==
    LET nm == NameMap(column_specs, names)
    IN  [i \in DOMAIN raw |-> IF raw[i] \in DOMAIN nm THEN nm[raw[i]] ELSE raw[i]]

\* {colname: cell for colname, cell in zip(header, row)
\*  if colname and cell and colname in column_names}   (a later pair replaces
\* an earlier one with the same key)
RowDict_bug(hdr, row, names) ==
    LET keep == {i \in 1..Min(Len(hdr), Len(row)) :
                   hdr[i] # <<>> /\ hdr[i] \in Range(names)}
    IN  [c \in {hdr[i] : i \in keep} |-> row[MaxOf({i \in keep : hdr[i] = c})]]
RowDict(hdr, row, names) ==
    LET keep == {i \in 1..Min(Len(hdr), Len(row)) :
                   hdr[i] # <<>> /\ row[i] # <<>> /\ hdr[i] \in Range(names)}
    IN  [c \in {hdr[i] : i \in keep} |-> row[MaxOf({i \in keep : hdr[i] = c})]]

\* ------------------------------------------------------- opening the entry
\* handles entered into the ExitStack
HEntry(i) == [h |-> "entry", i |-> i]
HZipFile(i) == [h |-> "ZipFile", i |-> i]
HInner(j) == [h |-> "inner", i |-> j]

\* next(info for info in internal_zip.infolist()
\*      if info.filename.endswith(Path(relpath).name)); 0 when there is none
InnerInfo(inner, relpath) ==
    LET hits == {j \in DOMAIN inner :
                   EndsWith(inner[j].filename, PathName(PathOf(relpath)))}
    IN  IF hits = {} THEN 0 ELSE MinOf(hits)

\* The with-block up to the decoder: the handles entered, the rows csv.reader
\* will read, or the exception that left the block.  A generator that raises
\* StopIteration (next() without default) ends with RuntimeError (PEP 479).
OpenTable(zf, zi, relpath) ==
    IF ~EndsWith(zf[zi].filename, <<".zip">>)
    THEN [st |-> "ok", opened |-> <<HEntry(zi)>>, src |-> zf[zi].rows]
    ELSE IF zf[zi].kind # "zip"
    THEN [st |-> "BadZipFile", opened |-> <<HEntry(zi)>>, src |-> <<>>]
    ELSE LET j == InnerInfo(zf[zi].inner, relpath)
         IN  IF j = 0
             THEN [st |-> "RuntimeError",
                   opened |-> <<HEntry(zi), HZipFile(zi)>>, src |-> <<>>]
             ELSE [st |-> "ok",
                   opened |-> <<HEntry(zi), HZipFile(zi), HInner(j)>>,
                   src |-> zf[zi].inner[j].rows]

\* -------------------------------------------------------------- get_cldf_json
\* A byte stream: `lead` whitespace bytes, then the first byte `first` of the
\* body ("" for an empty body), then the rest.  `parse` is what json.load
\* makes of the whole stream ("ok", "error"; "ioerror" when reading raises) and
\* `value` the parsed value.
Stream(lead, first, parse, value) ==
    [lead |-> lead, first |-> first, parse |-> parse, value |-> value]
\* parsed JSON values: an object with its dc:conformsTo (absent, a string, or
\* something that is not a string), or a value that is no object
JObject(has, isstr, profile, dia, tables) ==
    [type |-> "object", has |-> has, isstr |-> isstr, profile |-> profile,
     dialect |-> dia, tables |-> tables]
JOther(type) ==
    [type |-> type, has |-> FALSE, isstr |-> FALSE, profile |-> <<>>,
     dialect |-> EmptyMap, tables |-> <<>>]
\* a CLDF metadata document with module `mod`
CldfDoc(mod, dia, tables) ==
    JObject(TRUE, TRUE, <<TERMS_URL, "#", mod>>, dia, tables)
\* the stream of a JSON object
ObjectStream(lead, obj) == Stream(lead, "{", "ok", obj)

\* the bytes of the stream, one atom per byte up to the first body byte
StreamBytes(f) ==
    [i \in 1..f.lead |-> " "] \o (IF f.first = "" THEN <<>> ELSE <<f.first, "...">>)
\* bytes.lstrip()
RECURSIVE LStrip(_)
LStrip(b) == IF b # <<>> /\ Head(b) \in {" ", "\t", "\n", "\r"} THEN LStrip(Tail(b)) ELSE b

\* f.read(10).lstrip().startswith(b'{')
SniffLen == 10
Sniff(f) ==
    LET b == StreamBytes(f)
    IN  StartsWith(LStrip(SubSeq(b, 1, Min(SniffLen, Len(b)))), <<"{">>)

\* json_data.get('dc:conformsTo', '').startswith(TERMS_URL); "raise" when the
\* value has no .get or the profile no .startswith (AttributeError)
ProfileCheck_bug(v) ==
    IF v.type # "object" THEN "raise"
    ELSE IF ~v.has THEN "ok"
    ELSE IF ~v.isstr THEN "raise"
    ELSE IF StartsWith(v.profile, <<TERMS_URL>>) THEN "ok" ELSE "no"
ProfileCheck(v) ==
    IF v.type # "object" THEN "raise"
    ELSE IF ~v.has THEN "no"
    ELSE IF ~v.isstr THEN "raise"
    ELSE IF StartsWith(v.profile, <<TERMS_URL>>) THEN "ok" ELSE "no"

\* whether this interpreter's json.load takes the encoding keyword: it is
\* ignored up to Python 3.8 and a TypeError from 3.9 on
VARIABLE encoding_kw

\* Python None where a document is expected
NoDoc == JOther("None")
Returns(v) == [ret |-> v, exc |-> "none"]
Raises(e) == [ret |-> NoDoc, exc |-> e]
\* the body of the try block
TryBody(f) ==
    IF f.parse = "ioerror" THEN Raises("OSError")
    ELSE IF ~Sniff(f) THEN Returns(NoDoc)
    ELSE IF ~encoding_kw THEN Raises("TypeError")
    ELSE IF f.parse # "ok" THEN Raises("JSONDecodeError")
    ELSE IF ProfileCheck(f.value) = "raise" THEN Raises("AttributeError")
    ELSE IF ProfileCheck(f.value) = "no" THEN Returns(NoDoc)
    ELSE Returns(f.value)
\* get_cldf_json(f): except Exception: return None
GetCldfJson(f) ==
    LET r == TryBody(f) IN IF r.exc # "none" THEN Returns(NoDoc) ELSE r

\* ------------------------------------- cldfbench_clld_meta.py: ZipDataReader
\* The statistics code uses its own, older ZipDataReader: same get_table and
\* path lookup, names taken from the schema by position, first row skipped,
\* no dialect.
\* get_colname(spec): the requested name whose url is the propertyUrl, or None
OldColName(spec, columns) ==
    IF \E c \in Range(columns) : TermUrl(c) = spec.propertyUrl
    THEN CHOOSE c \in Range(columns) : TermUrl(c) = spec.propertyUrl
    ELSE <<>>
\* {colname: cell for colname, cell in zip(col_names, row) if colname and cell}
OldRow(col_names, row) ==
    LET keep == {i \in 1..Min(Len(col_names), Len(row)) :
                   col_names[i] # <<>> /\ row[i] # <<>>}
    IN  [c \in {col_names[i] : i \in keep} |->
           row[MaxOf({i \in keep : col_names[i] = c})]]
\* the with-block; [...][0] on an empty list raises IndexError
OldOpenTable(zf, zi, relpath) ==
    IF ~EndsWith(zf[zi].filename, <<".zip">>)
    THEN [st |-> "ok", src |-> zf[zi].rows]
    ELSE IF zf[zi].kind # "zip" THEN [st |-> "BadZipFile", src |-> <<>>]
    ELSE LET j == InnerInfo(zf[zi].inner, relpath)
         IN  IF j = 0 THEN [st |-> "IndexError", src |-> <<>>]
             ELSE [st |-> "ok", src |-> zf[zi].inner[j].rows]
\* all Rows of iterrows(name, *columns), or the exception it ends with
OldIterRows(zf, infos, root, md, name, columns) ==
    LET ti == GetTable(md, name)
        table == md.tables[ti]
        r == StripParents(table.url, root)
        zi == Locate(infos, root, table.url)
        o == OldOpenTable(zf, zi, r.relpath)
        col_names == [i \in DOMAIN table.columns |->
                         OldColName(table.columns[i], columns)]
    IN  IF ti = 0 \/ zi = 0 THEN [st |-> "ok", rows |-> <<>>]
        ELSE IF o.st # "ok" THEN [st |-> o.st, rows |-> <<>>]
        ELSE [st |-> "ok",
              rows |-> [i \in 1..(Len(o.src) - 1) |-> OldRow(col_names, o.src[i + 1])]]

\* ---------------------------------------------------- collect_dataset_stats

\* r.get(k); None is the empty string here, both are false
RowGet(r, k) == IF k \in DOMAIN r THEN r[k] ELSE <<>>
\* collections.Counter over a sequence
CounterOf(seq) ==
    [x \in Range(seq) |-> Cardinality({i \in DOMAIN seq : seq[i] = x})]
\* the seq of f(r) for the rows r that have a languageReference
LangRefs(rows) ==
    LET has == SelectSeq(rows, LAMBDA r : RowGet(r, languageReference) # <<>>)
    IN  [i \in DOMAIN has |-> has[i][languageReference]]
\* cldf_module(): self._cldf_md['dc:conformsTo'].split('#')[-1]
RECURSIVE AfterLastHash(_)
AfterLastHash(s) ==
    IF \E i \in DOMAIN s : s[i] = "#"
    THEN AfterLastHash(SubSeq(s, MinOf({i \in DOMAIN s : s[i] = "#"}) + 1, Len(s)))
    ELSE s

\* langtable value: r.get('glottocode') or r.get('iso639P3code') or r.get('id')
LangGuess_bug(r) ==
    IF RowGet(r, iso639P3code) # <<>> THEN r[iso639P3code]
    ELSE IF RowGet(r, glottocode) # <<>> THEN r[glottocode]
    ELSE RowGet(r, id)
LangGuess(r) ==
    IF RowGet(r, glottocode) # <<>> THEN r[glottocode]
    ELSE IF RowGet(r, iso639P3code) # <<>> THEN r[iso639P3code]
    ELSE RowGet(r, id)

NoneVal == [none |-> TRUE]
\* collect_dataset_stats(zipreader): [st, stats]; st is the exception of the
\* first iterrows call that raises
CollectDatasetStats(zf, infos, root, md) ==
    LET it(name, columns) == OldIterRows(zf, infos, root, md, name, columns)
        vt == it(ValueTable, <<languageReference, parameterReference>>)
        ft == it(FormTable, <<languageReference>>)
        et == it(EntryTable, <<languageReference>>)
        xt == it(ExampleTable, <<languageReference>>)
        lt == it(LanguageTable, <<id, glottocode, iso639P3code>>)
        vrows == SelectSeq(vt.rows, LAMBDA r : RowGet(r, languageReference) # <<>>)
        values == [i \in DOMAIN vrows |->
                     <<vrows[i][languageReference], RowGet(vrows[i], parameterReference)>>]
        lang_values == CounterOf([i \in DOMAIN values |-> values[i][1]])
        lang_features == CounterOf(SelectSeq(values, LAMBDA v : v[2] # <<>>))
        lang_forms == CounterOf(LangRefs(ft.rows))
        lang_entries == CounterOf(LangRefs(et.rows))
        lang_examples == CounterOf(LangRefs(xt.rows))
        lrows == SelectSeq(lt.rows, LAMBDA r : RowGet(r, id) # <<>>)
        langtable == [v \in {lrows[i][id] : i \in DOMAIN lrows} |->
                        LangGuess(lrows[MaxOf({i \in DOMAIN lrows : lrows[i][id] = v})])]
        lang_iter == DOMAIN lang_values \cup DOMAIN lang_forms
                        \cup DOMAIN lang_examples \cup DOMAIN lang_entries
        failed == SelectSeq(<<vt, ft, et, xt, lt>>, LAMBDA x : x.st # "ok")
    IN  IF failed # <<>> THEN [st |-> failed[1].st, stats |-> NoneVal]
        ELSE [st |-> "ok",
              stats |->
                [module |-> AfterLastHash(md.profile),
                 value_count |-> Len(values),
                 langs |-> [v \in lang_iter |->
                              IF v \in DOMAIN langtable /\ langtable[v] # <<>>
                              THEN langtable[v] ELSE v],
                 lang_values |-> lang_values,
                 lang_features |-> lang_features,
                 lang_forms |-> lang_forms,
                 lang_entries |-> lang_entries,
                 lang_examples |-> lang_examples]]

\* ----------------------------------------------------------- _stats_from_zip
\* the keys of file_tree in dict order (first insertion of each path)
RECURSIVE TreePaths(_)
TreePaths(zf) ==
    IF zf = <<>> THEN <<>>
    ELSE LET before == TreePaths(SubSeq(zf, 1, Len(zf) - 1))
             p == PathOf(zf[Len(zf)].filename)
         IN  IF p \in Range(before) THEN before ELSE Append(before, p)
\* Path.suffix: the last extension of the name, '' when there is none
ExtAtoms == {".json", ".csv", ".zip", ".txt", ".md"}
PathSuffix(p) ==
    LET name == PathName(p)
    IN  IF Len(name) >= 2 /\ name[Len(name)] \in ExtAtoms
        THEN <<name[Len(name)]>> ELSE <<>>
\* CLDFError(record_no, zip_path.name, 'nocldf')
CLDFError(record_no, file, reason) ==
    [record_no |-> record_no, file |-> file, reason |-> reason]

\* ------------------------------------------------------------ stats_from_zip
\* the loop of _stats_from_zip from item k on, as one call: [st, list], st
\* the exception that leaves the generator ("ok" when none does)
RECURSIVE ScanFrom(_, _, _, _)
ScanFrom(a, k, found, res) ==
    LET paths == TreePaths(a.zip)
        file_tree == FileTree(a.zip)
        path == paths[k + 1]
        info == a.zip[file_tree[path]]
        md == IF info.stream = <<>> THEN NoDoc ELSE GetCldfJson(info.stream[1]).ret
        c == CollectDatasetStats(a.zip, file_tree, PathParent(path), md)
    IN  IF k = Len(paths)
        THEN [st |-> "ok",
              list |-> IF found THEN res
                       ELSE Append(res, <<NoneVal,
                                          CLDFError(a.record_no, a.name, "nocldf")>>)]
        ELSE IF PathSuffix(path) # <<".json">> \/ md = NoDoc
        THEN ScanFrom(a, k + 1, found, res)
        ELSE IF c.st = "ok"
        THEN ScanFrom(a, k + 1, TRUE, Append(res, <<c.stats, NoneVal>>))
        ELSE [st |-> c.st, list |-> <<>>]
\* stats_from_zip(args): list(_stats_from_zip(args))
StatsFromZip(a) ==
    IF ~a.readable THEN [st |-> "BadZipFile", list |-> <<>>]
    ELSE ScanFrom(a, 0, FALSE, <<>>)

\* ---------------------------------------------------- util.py: path_contains
\* A Path with an anchor: abs is TRUE for '/...'; segs are the names.  The
\* parent of '/' is '/', the parent of '.' is '.', and both have the name ''.
AnchoredPath(abs, segs) == [abs |-> abs, segs |-> segs]
AnchoredParent(p) == [p EXCEPT !.segs = PathParent(p.segs)]
AnchoredName(p) == PathName(p.segs)
\* A regular expression: a sequence of items [c, q], character c taken once
\* (q = "1"), at most once ("?") or any number of times ("*")
Lit(str) == [i \in DOMAIN str |-> [c |-> str[i], q |-> "1"]]
Quant(c, q) == <<[c |-> c, q |-> q]>>
\* re.fullmatch(regex, name) is not None
RECURSIVE FullMatch(_, _)
FullMatch(regex, name) ==
    IF regex = <<>> THEN name = <<>>
    ELSE LET h == Head(regex)
             eats == name # <<>> /\ Head(name) = h.c
         IN  CASE h.q = "1" -> eats /\ FullMatch(Tail(regex), Tail(name))
               [] h.q = "?" -> \/ FullMatch(Tail(regex), name)
                               \/ eats /\ FullMatch(Tail(regex), Tail(name))
               [] h.q = "*" -> \/ FullMatch(Tail(regex), name)
                               \/ eats /\ FullMatch(regex, Tail(name))


\* ------------------------------------------------- updatemd.py: extract_json
\* The page as BeautifulSoup sees it: a sequence of elements [tag, style,
\* text]; style is <<>> when the element has no style attribute; text is the
\* raw text between the tags, character references not yet decoded.
PRE_WRAP == <<"white-space: pre-wrap;">>
Element(tag, style, text) == [tag |-> tag, style |-> style, text |-> text]
\* the parser decodes character references: &#34; is a double quote
Unescape(text) == [i \in DOMAIN text |-> IF text[i] = "&#34;" THEN "\"" ELSE text[i]]
\* soup.find_all(tag, style=style): the attribute value has to be equal
FindAll_bug(html, tag, style) == SelectSeq(html, LAMBDA e : e.tag = tag)
FindAll(html, tag, style) ==
    SelectSeq(html, LAMBDA e : e.tag = tag /\ e.style = style)
\* json.loads(text) for texts of the shape {"k": "v"}; JSONDecodeError for
\* everything else
JsonLoads(text) ==
    IF /\ Len(text) = 9
       /\ <<text[1], text[2], text[4], text[5], text[6], text[8], text[9]>>
             = <<"{", "\"", "\"", ":", "\"", "\"", "}">>
       /\ "\"" \notin {text[3], text[7]}
    THEN [exc |-> "none", ret |-> [k \in {text[3]} |-> text[7]]]
    ELSE [exc |-> "JSONDecodeError", ret |-> NoneVal]
\* extract_json(html_string)
ExtractJson(html) ==
    LET pre_tags == FindAll(html, "pre", PRE_WRAP)
    IN  IF pre_tags = <<>> THEN [exc |-> "ValueError", ret |-> NoneVal]
        ELSE IF Len(pre_tags) > 1 THEN [exc |-> "ValueError", ret |-> NoneVal]
        ELSE JsonLoads(Unescape(pre_tags[1].text))

\* ------------------------------------------------------ cleanup.py: cleanup
\* str.strip() and str.lower() over a string of characters
WhiteSpace == {" ", "\t", "\n"}
RECURSIVE LStripWs(_)
LStripWs(str) ==
    IF str # <<>> /\ Head(str) \in WhiteSpace THEN LStripWs(Tail(str)) ELSE str
RECURSIVE RStripWs(_)
RStripWs(str) ==
    IF str # <<>> /\ str[Len(str)] \in WhiteSpace
    THEN RStripWs(SubSeq(str, 1, Len(str) - 1))
    ELSE str
StrStrip(str) == RStripWs(LStripWs(str))
LowerChar(c) ==
    CASE c = "Y" -> "y" [] c = "E" -> "e" [] c = "S" -> "s" [] c = "N" -> "n"
      [] OTHER -> c
StrLower(str) == [i \in DOMAIN str |-> LowerChar(str[i])]
\* answer.strip().lower() in {'y', 'yes'}
Confirmed_bug(answer) == StrLower(answer) \in {<<"y">>, <<"y", "e", "s">>}
Confirmed(answer) == StrLower(StrStrip(answer)) \in {<<"y">>, <<"y", "e", "s">>}
\* the files of not-cldf.csv that exist: download_dir / record_no / filename
ExistingListed(rows, files) ==
    SelectSeq([i \in DOMAIN rows |-> <<rows[i][1], rows[i][2]>>],
              LAMBDA file_path : file_path \in files)
\* next(file_path.parent.iterdir(), None) is None
DirEmpty(files, record_no) == ~\E f \in files : f[1] = record_no

\* --------------------------------------------- raw_stats_to_glottocode_stats
\* keys of the counters: a language id, or a (language id, parameter id) tuple
StrKey(l) == [t |-> "str", l |-> l, p |-> ""]
TupleKey(l, p) == [t |-> "tuple", l |-> l, p |-> p]
\* the distinct elements of a sequence in the order they first occur
RECURSIVE FirstSeen(_)
FirstSeen(seq) ==
    IF seq = <<>> THEN <<>>
    ELSE LET before == FirstSeen(SubSeq(seq, 1, Len(seq) - 1))
         IN  IF seq[Len(seq)] \in Range(before) THEN before
             ELSE Append(before, seq[Len(seq)])
\* Counter(keys).items(): a dict keeps its keys in the order of insertion
CounterItems(keys) ==
    LET ks == FirstSeen(keys)
    IN  [n \in DOMAIN ks |->
           [key |-> ks[n],
            count |-> Cardinality({i \in DOMAIN keys : keys[i] = ks[n]})]]
\* lang_map = {lid: (by_glottocode.get(guess) or by_isocode[guess]).id
\*             for lid, guess in langs.items()
\*             if guess in by_glottocode or guess in by_isocode}
LangMap(langs, by_glottocode, by_isocode) ==
    [k \in {x \in DOMAIN langs :
              langs[x] \in DOMAIN by_glottocode \/ langs[x] \in DOMAIN by_isocode} |->
        IF langs[k] \in DOMAIN by_glottocode
        THEN by_glottocode[langs[k]].id
        ELSE by_isocode[langs[k]].id]
\* {lang_map[l]: c for l, c in counter.items() if l in lang_map}: an item
\* whose key maps to a code already set replaces the count of that code
ByCode(items, lang_map) ==
    LET kept == SelectSeq(items, LAMBDA it : it.key \in DOMAIN lang_map)
    IN  [g \in {lang_map[kept[i].key] : i \in DOMAIN kept} |->
           kept[MaxOf({i \in DOMAIN kept : lang_map[kept[i].key] = g})].count]
RawStatsToGlottocodeStats(stats, by_glottocode, by_isocode) ==
    LET lang_map == LangMap(stats.langs, by_glottocode, by_isocode)
    IN  [module |-> stats.module,
         value_count |-> stats.value_count,
         lang_count |-> Cardinality(DOMAIN stats.langs),
         glottocode_count |-> Cardinality(DOMAIN lang_map),
         langs |-> {lang_map[k] : k \in DOMAIN lang_map},
         lang_values |-> ByCode(stats.lang_values, lang_map),
         lang_features |-> ByCode(stats.lang_features, lang_map),
         lang_forms |-> ByCode(stats.lang_forms, lang_map),
         lang_entries |-> ByCode(stats.lang_entries, lang_map),
         lang_examples |-> ByCode(stats.lang_examples, lang_map)]
\* dict.get(key, 0)
GetOr0(d, k) == IF k \in DOMAIN d THEN d[k] ELSE 0
\* the rows of dataset-languages.csv of one dataset, `codes` being the
\* glottocodes in sorted order
DatasetLanguages(ds_id, stats, codes) ==
    LET lids == SelectSeq(codes, LAMBDA c : c \in stats.langs)
    IN  [n \in DOMAIN lids |->
           [ID |-> <<ds_id, lids[n]>>,
            Language_ID |-> lids[n],
            Dataset_ID |-> ds_id,
            Value_Count |-> GetOr0(stats.lang_values, lids[n]),
            Parameter_Count |-> GetOr0(stats.lang_features, lids[n]),
            Form_Count |-> GetOr0(stats.lang_forms, lids[n]),
            Entry_Count |-> GetOr0(stats.lang_entries, lids[n]),
            Example_Count |-> GetOr0(stats.lang_examples, lids[n])]]

\* ------------------------------------------------------------- cmd_download
\* retries = 3
Retries == 3
\* a file of a Zenodo record, and a record
ZFile(name, type) == [name |-> name, type |-> type]
ZRecord(rec_id, blacklisted, files) ==
    [id |-> rec_id, blacklisted |-> blacklisted, files |-> files]
\* _has_downloaded_data: record_dir.exists() and any(record_dir.iterdir())
HasDownloadedData(raw, record) == \E f \in raw : f[1] = record.id
\* file_urls = [(str(rec['id']), file) for rec in records for file in files
\*              if file['type'] == 'zip' and (id, basename) not in files_without_cldf]
\* over the records without downloaded data that are not blacklisted
RECURSIVE FileUrls(_, _, _)
FileUrls(records, raw, listed) ==
    IF records = <<>> THEN <<>>
    ELSE LET rec == Head(records)
             zips == SelectSeq(rec.files, LAMBDA file :
                        file.type = "zip" /\ <<rec.id, file.name>> \notin listed)
             mine == IF HasDownloadedData(raw, rec) \/ rec.blacklisted THEN <<>>
                     ELSE [n \in DOMAIN zips |-> [id |-> rec.id, file |-> zips[n]]]
         IN  mine \o FileUrls(Tail(records), raw, listed)
\* download_all after a failed attempt: the next attempt at the same url, or
\* `return` once the attempts are used up
AfterFailure_bug(url, attempt, count) ==
    IF attempt + 1 < Retries THEN [url |-> url, attempt |-> attempt + 1, ended |-> FALSE]
    ELSE [url |-> url + 1, attempt |-> 0, ended |-> url = count]
AfterFailure(url, attempt, count) ==
    IF attempt + 1 < Retries THEN [url |-> url, attempt |-> attempt + 1, ended |-> FALSE]
    ELSE [url |-> url, attempt |-> attempt, ended |-> TRUE]
\* download_all resumed after its yield: `break`, on to the next url
AfterYield(url, count) == [url |-> url + 1, attempt |-> 0, ended |-> url = count]
\* validate_checksum(file['checksum'], raw_data) passes: the data is the
\* content of that file, unaltered
ChecksumValid(k, payload) == payload.of = k /\ payload.intact

\* ---------------------------------------------------------------- state
VARIABLES
    \* ZipDataReader fields and the arguments of one iterrows call
    cldf_md, zip_file, zip_infos, md_root, table_arg, column_names,
    \* the iterrows generator: where it stands, the exception that ended it
    pc, exc,
    \* its locals: resolved dialect, ExitStack, csv.reader rows and position,
    \* renamed header
    dialect, withs, src, rdr_pos, header,
    \* observation: handles in the order opened / closed, Rows handed out
    opened, closed, yielded

VARIABLES
    \* one get_cldf_json(f) call: the stream, where the call stands, what it
    \* returned and the exception that left it
    json_f, json_pc, json_ret, json_exc
VARIABLES
    \* one stats_from_zip(args) call: args, where the generator stands, the
    \* exception that left it, file_tree items done, and list(...) so far
    args, zs_pc, zs_exc, zs_k, found_data, result

VARIABLES
    \* cmd_makecldf: the archives of the batch, what each pool task returned
    \* (or that it is still queued), how many results the parent has merged,
    \* the statistics gathered, ErrorFilter.errors, where the command stands
    \* and the exception that left it, the rows of datasets.csv
    data_archives, task, merged, dataset_stats, cldf_errors, mk_pc, mk_exc,
    datasets,
    \* observation: for each gathered statistics the index of its archive
    origin

VARIABLES
    \* one path_contains(path, regex) call: the argument, the local `path` of
    \* the loop, the regex, where the call stands and what it returned
    pcn_arg, pcn_path, pcn_regex, pcn_pc, pcn_ret
VARIABLES
    \* one extract_json(html_string) call: the page, where the call stands,
    \* what it returned and the exception that left it
    html_string, ex_pc, ex_ret, ex_exc

readerVars == <<cldf_md, zip_file, zip_infos, md_root, table_arg, column_names>>
genVars == <<pc, exc, dialect, withs, src, rdr_pos, header, opened, closed, yielded>>
jsonVars == <<encoding_kw, json_f, json_pc, json_ret, json_exc>>
statsVars == <<args, zs_pc, zs_exc, zs_k, found_data, result>>
batchVars == <<data_archives, task, merged, dataset_stats, cldf_errors, mk_pc,
               mk_exc, datasets, origin>>
pathVars == <<pcn_arg, pcn_path, pcn_regex, pcn_pc, pcn_ret>>
htmlVars == <<html_string, ex_pc, ex_ret, ex_exc>>
VARIABLES
    \* the rows of etc/not-cldf.csv after its header line, the files and the
    \* record directories under raw/datasets/
    etc_not_cldf, fs_files, fs_dirs,
    \* one cleanup call: the list not_cldf, the answer typed, where the call
    \* stands, the exception that left it, how many files the loop has done
    not_cldf, answer, cl_pc, cl_exc, cl_k,
    \* observation: the files and directories there when the call started
    fs_files0, fs_dirs0
cleanVars == <<etc_not_cldf, fs_files, fs_dirs, not_cldf, answer, cl_pc, cl_exc,
               cl_k, fs_files0, fs_dirs0>>
VARIABLES
    \* the rows the statistics of one dataset were counted from (language and
    \* parameter of each value row; language of each form, entry and example
    \* row) and the statistics collect_dataset_stats made of them
    value_rows, form_rows, entry_rows, example_rows, raw_stats,
    \* the statistics by glottocode, the dataset's rows of
    \* dataset-languages.csv, and where cmd_makecldf stands with them
    glotto_stats, dataset_languages, gs_pc
glottoVars == <<value_rows, form_rows, entry_rows, example_rows, raw_stats,
                glotto_stats, dataset_languages, gs_pc>>
VARIABLES
    \* raw/zenodo-metadata.json, the (record, file) pairs of etc/not-cldf.csv,
    \* the files under raw/datasets/
    zenodo_records, files_without_cldf, raw_files,
    \* one cmd_download call: file_urls, where the call stands, the exception
    \* that left it, and download_all's url index and attempt
    file_urls, dl_pc, dl_exc, gen_url, gen_attempt,
    \* observation: requests made per url, payloads yielded, files written
    requests, payloads, written
dlVars == <<zenodo_records, files_without_cldf, raw_files, file_urls, dl_pc,
            dl_exc, gen_url, gen_attempt, requests, payloads, written>>
toolVars == <<cleanVars, glottoVars, dlVars>>
utilVars == <<pathVars, htmlVars, toolVars>>
vars == <<readerVars, genVars, jsonVars, statsVars, batchVars, utilVars>>

\* the generator leaves a next() call in this state
Gen(pc1, exc1, d1, withs1, src1, pos1, header1, opened1, closed1, yielded1) ==
    /\ pc' = pc1
    /\ exc' = exc1
    /\ dialect' = d1
    /\ withs' = withs1
    /\ src' = src1
    /\ rdr_pos' = pos1
    /\ header' = header1
    /\ opened' = opened1
    /\ closed' = closed1
    /\ yielded' = yielded1
    /\ UNCHANGED <<readerVars, jsonVars, statsVars, batchVars, utilVars>>

\* for row in row_i: yield {...} -- pull the next data row with the ExitStack
\* `stack` entered; leaving the with-block closes the handles last-in first-out
NextData_bug(d, stack, rows, pos, hdr, opn, out) ==
    LET r == PullRow(rows, pos, d, FALSE)
    IN  CASE r.st = "row" ->
               Gen("suspended", "none", d, stack, rows, Len(rows), hdr, opn, closed,
                   Append(out, RowDict(hdr, r.row, column_names)))
          [] r.st = "end" ->
               Gen("returned", "none", d, <<>>, rows, r.pos, hdr, opn,
                   closed \o Reverse(stack), out)
          [] OTHER ->
               Gen("raised", r.st, d, <<>>, rows, r.pos, hdr, opn,
                   closed \o Reverse(stack), out)
NextData(d, stack, rows, pos, hdr, opn, out) ==
    LET r == PullRow(rows, pos, d, FALSE)
    IN  CASE r.st = "row" ->
               Gen("suspended", "none", d, stack, rows, r.pos, hdr, opn, closed,
                   Append(out, RowDict(hdr, r.row, column_names)))
          [] r.st = "end" ->
               Gen("returned", "none", d, <<>>, rows, r.pos, hdr, opn,
                   closed \o Reverse(stack), out)
          [] OTHER ->
               Gen("raised", r.st, d, <<>>, rows, r.pos, hdr, opn,
                   closed \o Reverse(stack), out)

\* the first next() on iterrows(table, *column_names): everything up to the
\* first yield
IterStart ==
    /\ pc = "created"
    /\ LET ti == GetTable(cldf_md, table_arg)
       IN  IF ti = 0
           THEN Gen("returned", "none", dialect, <<>>, src, rdr_pos, header,
                    opened, closed, yielded)
           ELSE
           LET table == cldf_md.tables[ti]
               d == ResolveDialect(table, cldf_md)
               r == StripParents(table.url, md_root)
               zi == Locate(zip_infos, md_root, table.url)
               o == OpenTable(zip_file, zi, r.relpath)
               h == PullRow(o.src, 0, d, TRUE)
           IN  IF ~HeaderAccepted(d) \/ ~HeaderRowCountAccepted(d)
               THEN Gen("raised", "AssertionError", d, <<>>, src, rdr_pos,
                        header, opened, closed, yielded)
               ELSE IF zi = 0
               THEN Gen("returned", "none", d, <<>>, src, rdr_pos, header,
                        opened, closed, yielded)
               ELSE IF o.st # "ok"
               THEN Gen("raised", o.st, d, <<>>, src, rdr_pos, header,
                        o.opened, Reverse(o.opened), yielded)
               ELSE IF h.st = "row"
               THEN NextData(d, o.opened, o.src, h.pos,
                             RenameHeader(table.columns, column_names, h.row),
                             o.opened, yielded)
               ELSE Gen(IF h.st = "end" THEN "returned" ELSE "raised",
                        IF h.st = "end" THEN "none" ELSE h.st,
                        d, <<>>, o.src, h.pos, <<>>, o.opened,
                        Reverse(o.opened), yielded)

\* a later next(): resume after the yield
IterNext ==
    /\ pc = "suspended"
    /\ NextData(dialect, withs, src, rdr_pos, header, opened, yielded)

\* the consumer closes (or drops) the generator: GeneratorExit at the yield
\* unwinds the ExitStack; a generator never started just ends
IterClose ==
    /\ pc \in {"created", "suspended"}
    /\ Gen("closed", "none", dialect, <<>>, src, rdr_pos, header, opened,
           closed \o Reverse(withs), yielded)

\* cldf_md = get_cldf_json(f), f being json_f
CallGetCldfJson ==
    /\ json_pc = "call"
    /\ json_pc' = "done"
    /\ json_ret' = GetCldfJson(json_f).ret
    /\ json_exc' = GetCldfJson(json_f).exc
    /\ UNCHANGED <<encoding_kw, json_f, readerVars, genVars, statsVars, batchVars,
                   utilVars>>

\* the generator _stats_from_zip(args), driven to its end by list()
StatsStep(pc1, exc1, k1, found1, result1) ==
    /\ zs_pc' = pc1
    /\ zs_exc' = exc1
    /\ zs_k' = k1
    /\ found_data' = found1
    /\ result' = result1
    /\ UNCHANGED <<args, readerVars, genVars, jsonVars, batchVars, utilVars>>

\* with zipfile.ZipFile(zip_path) as zip: file_tree = {...}
StatsOpen ==
    /\ zs_pc = "call"
    /\ IF args.readable
       THEN StatsStep("loop", "none", 0, FALSE, result)
       ELSE StatsStep("raised", "BadZipFile", 0, FALSE, result)

\* one turn of: for path, info in file_tree.items()
StatsScan ==
    /\ zs_pc = "loop"
    /\ zs_k < Len(TreePaths(args.zip))
    /\ \E file_tree \in {FileTree(args.zip)} :
       \E path \in {TreePaths(args.zip)[zs_k + 1]} :
       \E info \in {args.zip[file_tree[path]]} :
       \E cldf_md1 \in {IF info.stream = <<>> THEN NoDoc
                         ELSE GetCldfJson(info.stream[1]).ret} :
          IF PathSuffix(path) # <<".json">> \/ cldf_md1 = NoDoc
          THEN StatsStep("loop", "none", zs_k + 1, found_data, result)
          ELSE \E c \in {CollectDatasetStats(args.zip, file_tree,
                                             PathParent(path), cldf_md1)} :
                  IF c.st = "ok"
                  THEN StatsStep("loop", "none", zs_k + 1, TRUE,
                                 Append(result, <<c.stats, NoneVal>>))
                  ELSE StatsStep("raised", c.st, zs_k + 1, TRUE, result)

\* after the loop: if not found_data: yield None, CLDFError(...)
StatsFinish ==
    /\ zs_pc = "loop"
    /\ zs_k = Len(TreePaths(args.zip))
    /\ StatsStep("done", "none", zs_k, found_data,
                 IF found_data THEN result
                 ELSE Append(result,
                             <<NoneVal, CLDFError(args.record_no, args.name, "nocldf")>>))

\* ------------------------------------------------------------- cmd_makecldf
\* the state cmd_makecldf leaves after a step
BatchStep(task1, merged1, stats1, origin1, errors1, pc1, exc1, datasets1) ==
    /\ task' = task1
    /\ merged' = merged1
    /\ dataset_stats' = stats1
    /\ origin' = origin1
    /\ cldf_errors' = errors1
    /\ mk_pc' = pc1
    /\ mk_exc' = exc1
    /\ datasets' = datasets1
    /\ UNCHANGED <<data_archives, readerVars, genVars, jsonVars, statsVars,
                   utilVars>>

\* ErrorFilter.filter over one chunk: the values that are not None
ChunkVals(chunk) ==
    LET keep == SelectSeq(chunk, LAMBDA x : x[1] # NoneVal)
    IN  [n \in DOMAIN keep |-> keep[n][1]]
\* ErrorFilter.filter over one chunk: the errors that are not None
ChunkErrs(chunk) ==
    LET keep == SelectSeq(chunk, LAMBDA x : x[2] # NoneVal)
    IN  [n \in DOMAIN keep |-> keep[n][2]]

\* a worker that appends its errors to a list shared with the parent
WorkerRun_bug ==
    /\ mk_pc = "pool"
    /\ \E i \in DOMAIN data_archives :
         /\ task[i].st = "queued"
         /\ \E r \in {StatsFromZip(data_archives[i])} :
              BatchStep([task EXCEPT ![i] = r], merged, dataset_stats, origin,
                        cldf_errors \o ChunkErrs(r.list), mk_pc, mk_exc, datasets)
\* a pool worker runs stats_from_zip on a queued archive, in its own process
WorkerRun ==
    /\ mk_pc = "pool"
    /\ \E i \in DOMAIN data_archives :
         /\ task[i].st = "queued"
         /\ \E r \in {StatsFromZip(data_archives[i])} :
              BatchStep([task EXCEPT ![i] = r], merged, dataset_stats, origin,
                        cldf_errors, mk_pc, mk_exc, datasets)

\* the parent takes the next result of pool.imap, in archive order; a worker's
\* exception is raised again here and leaves cmd_makecldf
MergeChunk ==
    /\ mk_pc = "pool"
    /\ merged < Len(data_archives)
    /\ task[merged + 1].st # "queued"
    /\ \E r \in {task[merged + 1]} :
         IF r.st # "ok"
         THEN BatchStep(task, merged, dataset_stats, origin, cldf_errors,
                        "raised", r.st, datasets)
         ELSE BatchStep(task, merged + 1,
                        dataset_stats \o ChunkVals(r.list),
                        origin \o [n \in DOMAIN ChunkVals(r.list) |-> merged + 1],
                        cldf_errors \o ChunkErrs(r.list),
                        mk_pc, mk_exc, datasets)

\* count_datasets(record_no) for the n-th row of datasets.csv
CountDatasets(archives, n) ==
    Cardinality({m \in 1..n : archives[m].record_no = archives[n].record_no})
\* datasets = [... for ((record_no, _), stats) in zip(data_archives, dataset_stats)]
DatasetRows(archives, stats) ==
    [n \in 1..Min(Len(archives), Len(stats)) |->
        [ID |-> <<archives[n].record_no, CountDatasets(archives, n)>>,
         Contribution_ID |-> archives[n].record_no,
         Module |-> stats[n].module,
         Value_Count |-> stats[n].value_count]]

\* after the pool: not-cldf.csv is rewritten and the tables are assembled
Assemble ==
    /\ mk_pc = "pool"
    /\ merged = Len(data_archives)
    /\ BatchStep(task, merged, dataset_stats, origin, cldf_errors, "done",
                 "none", DatasetRows(data_archives, dataset_stats))

\* ------------------------------------------------------------ path_contains
\* one turn of the while True loop
PathContainsStep ==
    /\ pcn_pc = "loop"
    /\ IF FullMatch(pcn_regex, AnchoredName(pcn_path))
       THEN pcn_pc' = "done" /\ pcn_ret' = TRUE /\ pcn_path' = pcn_path
       ELSE IF AnchoredParent(pcn_path) = pcn_path
       THEN pcn_pc' = "done" /\ pcn_ret' = FALSE /\ pcn_path' = pcn_path
       ELSE pcn_pc' = "loop" /\ pcn_ret' = pcn_ret
            /\ pcn_path' = AnchoredParent(pcn_path)
    /\ UNCHANGED <<pcn_arg, pcn_regex, htmlVars, toolVars, readerVars, genVars,
                   jsonVars, statsVars, batchVars>>

\* ------------------------------------------------------------- extract_json
CallExtractJson ==
    /\ ex_pc = "call"
    /\ ex_pc' = "done"
    /\ ex_ret' = ExtractJson(html_string).ret
    /\ ex_exc' = ExtractJson(html_string).exc
    /\ UNCHANGED <<html_string, pathVars, toolVars, readerVars, genVars,
                   jsonVars, statsVars, batchVars>>

\* ------------------------------------------------------------------ cleanup
\* the state of the file system and of the call after one step
CleanupStep(files1, dirs1, list1, answer1, pc1, exc1, k1) ==
    /\ fs_files' = files1
    /\ fs_dirs' = dirs1
    /\ not_cldf' = list1
    /\ answer' = answer1
    /\ cl_pc' = pc1
    /\ cl_exc' = exc1
    /\ cl_k' = k1
    /\ UNCHANGED <<etc_not_cldf, fs_files0, fs_dirs0, pathVars, htmlVars,
                   glottoVars, dlVars, readerVars, genVars, jsonVars, statsVars,
                   batchVars>>
\* not-cldf.csv is read, the existing files are listed and printed
CleanupList ==
    /\ cl_pc = "call"
    /\ CleanupStep(fs_files, fs_dirs, ExistingListed(etc_not_cldf, fs_files),
                   answer, "prompt", cl_exc, cl_k)
\* answer = input(...); anything but y / yes returns
CleanupAnswer(Answers) ==
    /\ cl_pc = "prompt"
    /\ \E a \in Answers :
         CleanupStep(fs_files, fs_dirs, not_cldf, a,
                     IF Confirmed(a) /\ not_cldf # <<>> THEN "loop" ELSE "done",
                     cl_exc, cl_k)
\* one turn of `for file_path in not_cldf`: unlink, then rmdir of a parent
\* left empty
CleanupRemove ==
    /\ cl_pc = "loop"
    /\ \E file_path \in {not_cldf[cl_k + 1]} :
         IF file_path \notin fs_files
         THEN CleanupStep(fs_files, fs_dirs, not_cldf, answer, "raised",
                          "FileNotFoundError", cl_k)
         ELSE \E left \in {fs_files \ {file_path}} :
                CleanupStep(left,
                            IF DirEmpty(left, file_path[1])
                            THEN fs_dirs \ {file_path[1]} ELSE fs_dirs,
                            not_cldf, answer,
                            IF cl_k + 1 = Len(not_cldf) THEN "done" ELSE "loop",
                            cl_exc, cl_k + 1)

\* ------------------------------------------- cmd_makecldf: language counts
GlottoStep(stats1, rows1, pc1) ==
    /\ glotto_stats' = stats1
    /\ dataset_languages' = rows1
    /\ gs_pc' = pc1
    /\ UNCHANGED <<value_rows, form_rows, entry_rows, example_rows, raw_stats,
                   cleanVars, dlVars, pathVars, htmlVars, readerVars, genVars,
                   jsonVars, statsVars, batchVars>>
\* dataset_stats = [raw_stats_to_glottocode_stats(stats, ...) for stats in ...]
ConvertStats(by_glottocode, by_isocode) ==
    /\ gs_pc = "collected"
    /\ GlottoStep(RawStatsToGlottocodeStats(raw_stats, by_glottocode, by_isocode),
                  dataset_languages, "converted")
\* dataset_languages = [... for ds, stats in zip(datasets, dataset_stats)
\*                          for lid in stats['langs']]
AssembleLanguages(ds_id, codes) ==
    /\ gs_pc = "converted"
    /\ GlottoStep(glotto_stats, DatasetLanguages(ds_id, glotto_stats, codes), "done")

\* ------------------------------------------------------------- cmd_download
DownloadStep(urls1, raw1, pc1, exc1, gen1, requests1, payloads1, written1) ==
    /\ file_urls' = urls1
    /\ raw_files' = raw1
    /\ dl_pc' = pc1
    /\ dl_exc' = exc1
    /\ gen_url' = gen1.url
    /\ gen_attempt' = gen1.attempt
    /\ requests' = requests1
    /\ payloads' = payloads1
    /\ written' = written1
    /\ UNCHANGED <<zenodo_records, files_without_cldf, cleanVars, glottoVars,
                   pathVars, htmlVars, readerVars, genVars, jsonVars, statsVars,
                   batchVars>>
\* cmd_download up to the first request: the records to fetch and their files
CmdDownloadStart ==
    /\ dl_pc = "call"
    /\ \E urls \in {FileUrls(zenodo_records, raw_files, files_without_cldf)} :
         DownloadStep(urls, raw_files,
                      IF urls = <<>> THEN "done" ELSE "downloading", dl_exc,
                      [url |-> 1, attempt |-> 0],
                      [n \in DOMAIN urls |-> 0], payloads, written)
\* urlopen answers with the data (unaltered or not): download_all yields it,
\* zip pairs it with the next entry of files, _download_datasets validates
\* and writes it, and download_all goes on to the next url
RequestOk ==
    /\ dl_pc = "downloading"
    /\ \E intact \in BOOLEAN :
         LET payload == [of |-> gen_url, intact |-> intact]
             k == Len(payloads) + 1
             target == file_urls[k]
             gen1 == AfterYield(gen_url, Len(file_urls))
             asked == [requests EXCEPT ![gen_url] = @ + 1]
         IN  IF ~ChecksumValid(k, payload)
             THEN DownloadStep(file_urls, raw_files, "raised", "ValueError",
                               [url |-> gen_url, attempt |-> gen_attempt],
                               asked, Append(payloads, payload), written)
             ELSE DownloadStep(file_urls,
                               raw_files \cup {<<target.id, target.file.name>>},
                               IF gen1.ended THEN "done" ELSE "downloading",
                               dl_exc, gen1, asked, Append(payloads, payload),
                               Append(written, [id |-> target.id,
                                                name |-> target.file.name,
                                                data |-> payload]))
\* urlopen raises HTTPError: 429 waits, anything else is reported; both use up
\* an attempt, and the last one ends download_all and with it the zip loop
RequestFails(codes) ==
    /\ dl_pc = "downloading"
    /\ \E code \in codes :
         LET gen1 == AfterFailure(gen_url, gen_attempt, Len(file_urls))
         IN  DownloadStep(file_urls, raw_files,
                          IF gen1.ended THEN "done" ELSE "downloading",
                          dl_exc, gen1,
                          [requests EXCEPT ![gen_url] = @ + 1], payloads, written)

\* ------------------------------------------------------------------ inputs
\* sequences over S of length at most n
SeqsUpTo(X, n) == UNION {[1..m -> X] : m \in 0..n}

\* column names and cells
my_id_col == S("my_id_col")
my_language_col == S("my_language_col")
my_custom_col == S("my_custom_col")

Column(name, purl) == [name |-> name, propertyUrl |-> purl]
\* the schema of the spec's projection example
ExampleColumns ==
    << Column(my_id_col, TermUrl(id)),
       Column(my_language_col, TermUrl(languageReference)),
       Column(my_custom_col, NoUrl) >>
\* a raw column called "id" without propertyUrl, a foreign propertyUrl, and
\* the id url on the third column
OtherColumns ==
    << Column(id, NoUrl),
       Column(my_language_col, <<"http://purl.org/dc/terms/", "language">>),
       Column(my_custom_col, TermUrl(id)) >>
ColumnSpecs == {ExampleColumns, OtherColumns}

Requests == { <<id>>, <<my_custom_col>>, <<id, languageReference>>,
              <<languageReference, my_custom_col>> }

\* raw rows as csv.reader returns them
HeaderRow == <<my_id_col, my_language_col, my_custom_col>>
IdHeaderRow == <<id, my_language_col, my_custom_col>>
DataRow(x) == <<S("a") \o x, S("b") \o x, S("c") \o x>>
RowPool ==
    { HeaderRow, IdHeaderRow,
      <<S("a"), S("b"), S("c")>>,      \* the example's data row
      <<<<>>, S("b")>>,                \* empty first cell, no third cell
      <<<<"#", "x">>, S("b"), S("c")>>, \* first cell starts with '#'
      <<<<>>, <<>>>> }                  \* blank row
Contents == SeqsUpTo(RowPool, MaxRows)

Table(conf, url, dia, cols) ==
    [conformsTo |-> conf, url |-> url, dialect |-> dia, columns |-> cols]
Metadata(dia, tables) == [dialect |-> dia, tables |-> tables]

\* a one-key dialect object
One(f, v) == [x \in {f} |-> v]
\* the values tried for a dialect field
FieldValues(f) ==
    CASE f = "commentPrefix" -> {JNull, JStr("#")}
      [] f = "delimiter" -> {JStr(";"), JStr(",")}
      [] f = "encoding" -> {JStr("utf-8"), JStr("latin-1")}
      [] f = "quoteChar" -> {JNull, JStr("'")}
      [] f = "headerRowCount" -> {JNum(0), JNum(1), JNum(2)}
      [] f \in {"skipColumns", "skipRows"} -> {JNum(0), JNum(1)}
      [] f = "trim" -> {JBool(TRUE), JBool(FALSE), JStr("start"), JStr("end"),
                        JStr("true"), JStr("false"), JNum(1)}
      [] OTHER -> {JBool(TRUE), JBool(FALSE)}
OneKeyDialects == {EmptyMap} \cup {One(f, v) : <<f, v>> \in
                      UNION {{<<g, w>> : w \in FieldValues(g)} : g \in Fields}}

B_CSV == <<"b", ".csv">>
A_B_CSV == <<"a", "/", "b", ".csv">>
UrlPool == { B_CSV, A_B_CSV, <<"..", "/">> \o B_CSV,
             <<"..", "/", "..", "/">> \o B_CSV }
Roots == { <<>>, <<S("a")>>, <<S("a"), S("c")>> }

\* file contents that tell the entries apart
Rows(x) == <<HeaderRow, DataRow(x), DataRow(x \o x)>>
PlainB == CsvEntry(B_CSV, Rows(S("1")))
NestedB ==
    ZipEntry(B_CSV \o <<".zip">>,
             << Inner(<<"x", ".txt">>, Rows(S("2"))),
                Inner(<<"d", "/", "b", ".csv">>, Rows(S("3"))),
                Inner(B_CSV, Rows(S("4"))) >>)
NestedNoMatch ==
    ZipEntry(B_CSV \o <<".zip">>, << Inner(<<"x", ".txt">>, Rows(S("2"))) >>)
NotAZip == CsvEntry(B_CSV \o <<".zip">>, Rows(S("5")))
PlainAB == CsvEntry(A_B_CSV, Rows(S("6")))
NestedAB ==
    ZipEntry(A_B_CSV \o <<".zip">>,
             << Inner(<<"x", "b", ".csv">>, Rows(S("7"))),
                Inner(B_CSV, Rows(S("8"))) >>)
Archives ==
    { <<>>, <<PlainB>>, <<NestedB>>, <<NestedNoMatch>>, <<NotAZip>>,
      <<PlainB, NestedB>>, <<NestedB, PlainB>>, <<PlainB, NestedNoMatch>>,
      <<PlainAB>>, <<NestedAB>>, <<NestedAB, PlainAB>>, <<PlainB, PlainAB>> }

FormDescriptor == Table(TermUrl(FormTable), <<"f", ".csv">>, EmptyMap, ExampleColumns)

\* a generator object just created: nothing has run
GenFresh ==
    /\ exc = "none"
    /\ dialect = EmptyMap
    /\ withs = <<>>
    /\ src = <<>>
    /\ rdr_pos = 0
    /\ header = <<>>
    /\ opened = <<>>
    /\ closed = <<>>
    /\ yielded = <<>>
Created == pc = "created" /\ GenFresh

\* no iterrows call, no get_cldf_json call, no stats_from_zip call going on
IdleIter ==
    /\ cldf_md = Metadata(EmptyMap, <<>>)
    /\ zip_file = <<>>
    /\ zip_infos = FileTree(<<>>)
    /\ md_root = <<>>
    /\ table_arg = <<>>
    /\ column_names = <<>>
    /\ pc = "idle"
    /\ GenFresh
IdleJson ==
    /\ encoding_kw = TRUE
    /\ json_f = Stream(0, "", "error", NoDoc)
    /\ json_pc = "idle"
    /\ json_ret = NoDoc
    /\ json_exc = "none"
IdleStats ==
    /\ args = [record_no |-> "", name |-> <<>>, zip |-> <<>>, readable |-> TRUE]
    /\ zs_pc = "idle"
    /\ zs_exc = "none"
    /\ zs_k = 0
    /\ found_data = FALSE
    /\ result = <<>>

IdleBatch ==
    /\ data_archives = <<>>
    /\ task = <<>>
    /\ merged = 0
    /\ dataset_stats = <<>>
    /\ origin = <<>>
    /\ cldf_errors = <<>>
    /\ mk_pc = "idle"
    /\ mk_exc = "none"
    /\ datasets = <<>>

IdlePath ==
    /\ pcn_arg = AnchoredPath(FALSE, <<>>)
    /\ pcn_path = AnchoredPath(FALSE, <<>>)
    /\ pcn_regex = <<>>
    /\ pcn_pc = "idle"
    /\ pcn_ret = FALSE

IdleHtml ==
    /\ html_string = <<>>
    /\ ex_pc = "idle"
    /\ ex_ret = NoneVal
    /\ ex_exc = "none"
IdleClean ==
    /\ etc_not_cldf = <<>>
    /\ fs_files = {}
    /\ fs_dirs = {}
    /\ not_cldf = <<>>
    /\ answer = <<>>
    /\ cl_pc = "idle"
    /\ cl_exc = "none"
    /\ cl_k = 0
    /\ fs_files0 = {}
    /\ fs_dirs0 = {}
IdleGlotto ==
    /\ value_rows = <<>>
    /\ form_rows = <<>>
    /\ entry_rows = <<>>
    /\ example_rows = <<>>
    /\ raw_stats = NoneVal
    /\ glotto_stats = NoneVal
    /\ dataset_languages = <<>>
    /\ gs_pc = "idle"
IdleDownload ==
    /\ zenodo_records = <<>>
    /\ files_without_cldf = {}
    /\ raw_files = {}
    /\ file_urls = <<>>
    /\ dl_pc = "idle"
    /\ dl_exc = "none"
    /\ gen_url = 0
    /\ gen_attempt = 0
    /\ requests = <<>>
    /\ payloads = <<>>
    /\ written = <<>>
IdleTools == IdleClean /\ IdleGlotto /\ IdleDownload
IdleUtil == IdlePath /\ IdleHtml /\ IdleTools

\* where the table lives: tables declared or not, urls with parent segments,
\* plain and nested entries
InitLocate ==
    /\ \E url \in UrlPool,
          td \in {EmptyMap, One("headerRowCount", JNum(1)),
                  One("headerRowCount", JNum(2)), One("header", JBool(FALSE)),
                  One("trim", JStr("end"))},
          dd \in {EmptyMap, One("header", JBool(FALSE))} :
         \E tables \in
              { <<>>, <<FormDescriptor>>,
                <<Table(TermUrl(ValueTable), url, td, ExampleColumns)>>,
                <<FormDescriptor,
                  Table(TermUrl(ValueTable), url, td, ExampleColumns),
                  Table(TermUrl(ValueTable), <<"f", ".csv">>, td, ExampleColumns)>> } :
            cldf_md = Metadata(dd, tables)
    /\ zip_file \in Archives
    /\ md_root \in Roots
    /\ table_arg = ValueTable
    /\ column_names = <<id, languageReference>>

\* what the rows are: file contents, row filters, schemas, requested columns
InitRows ==
    /\ \E rows \in Contents : zip_file = <<CsvEntry(B_CSV, rows)>>
    /\ \E td \in {EmptyMap, One("skipRows", JNum(1)), One("skipColumns", JNum(1)),
                  One("skipBlankRows", JBool(TRUE)), One("commentPrefix", JNull),
                  One("trim", JBool(TRUE))},
          cols \in ColumnSpecs :
         cldf_md = Metadata(EmptyMap,
                            <<Table(TermUrl(ValueTable), B_CSV, td, cols)>>)
    /\ md_root = <<>>
    /\ table_arg = ValueTable
    /\ column_names \in Requests

\* how the dialect resolves: one override per level, any field
InitDialect ==
    /\ \E td \in OneKeyDialects, dd \in OneKeyDialects :
         cldf_md = Metadata(dd, <<Table(TermUrl(ValueTable), B_CSV, td,
                                        ExampleColumns)>>)
    /\ zip_file = <<PlainB>>
    /\ md_root = <<>>
    /\ table_arg = ValueTable
    /\ column_names = <<id, languageReference>>

Init ==
    /\ InitLocate \/ InitRows
    /\ zip_infos = FileTree(zip_file)
    /\ Created
    /\ IdleJson
    /\ IdleStats
    /\ IdleBatch
    /\ IdleUtil

Next == IterStart \/ IterNext \/ IterClose

Spec == Init /\ [][Next]_vars

\* the same generator over the dialect inputs
InitD ==
    /\ InitDialect
    /\ zip_infos = FileTree(zip_file)
    /\ Created
    /\ IdleJson
    /\ IdleStats
    /\ IdleBatch
    /\ IdleUtil

SpecDialect == InitD /\ [][Next]_vars

\* rows that tell the orders of the row filters apart
FilterRowPool ==
    { HeaderRow,
      <<S("a"), S("b"), S("c")>>,
      <<<<"#", "x">>, S("b"), S("c")>>,     \* first cell starts with '#'
      <<S("a"), <<"#", "x">>, S("c")>>,     \* only the second cell does
      <<S("a"), <<>>, <<>>>>,                \* blank but for the first cell
      <<<<>>, <<>>, <<>>>>,                  \* blank
      <<<<"a", " ">>, <<" ">>, <<>>>> }      \* trailing whitespace
\* dialects of two keys, one on the table and one on the dataset
InitFilters ==
    /\ \E rows \in SeqsUpTo(FilterRowPool, MaxRows) :
         zip_file = <<CsvEntry(B_CSV, rows)>>
    /\ \E td \in {EmptyMap, One("skipRows", JNum(1)), One("skipColumns", JNum(1))},
          dd \in {EmptyMap, One("skipBlankRows", JBool(TRUE)),
                  One("commentPrefix", JNull), One("trim", JBool(TRUE)),
                  One("trim", JStr("end"))} :
         cldf_md = Metadata(dd, <<Table(TermUrl(ValueTable), B_CSV, td,
                                        ExampleColumns)>>)
    /\ md_root = <<>>
    /\ table_arg = ValueTable
    /\ column_names = <<id, languageReference, my_custom_col>>
InitF ==
    /\ InitFilters
    /\ zip_infos = FileTree(zip_file)
    /\ Created
    /\ IdleJson
    /\ IdleStats
    /\ IdleBatch
    /\ IdleUtil

SpecFilters == InitF /\ [][Next]_vars

\* ------------------------------------------------- inputs of get_cldf_json
\* what a stream can hold after its leading whitespace
Bodies ==
    { [first |-> "{", parse |-> "ok", value |-> CldfDoc("Wordlist", EmptyMap, <<>>)],
      [first |-> "{", parse |-> "ok",
       value |-> JObject(TRUE, TRUE, <<TERMS_URL, "x">>, EmptyMap, <<>>)],
      [first |-> "{", parse |-> "ok",
       value |-> JObject(TRUE, TRUE, <<"http://example.org/", TERMS_URL>>, EmptyMap, <<>>)],
      [first |-> "{", parse |-> "ok",
       value |-> JObject(TRUE, TRUE, <<>>, EmptyMap, <<>>)],
      [first |-> "{", parse |-> "ok",
       value |-> JObject(TRUE, FALSE, <<>>, EmptyMap, <<>>)],
      [first |-> "{", parse |-> "ok",
       value |-> JObject(FALSE, FALSE, <<>>, EmptyMap, <<>>)],
      [first |-> "{", parse |-> "error", value |-> NoDoc],
      [first |-> "{", parse |-> "ioerror", value |-> CldfDoc("Wordlist", EmptyMap, <<>>)],
      [first |-> "[", parse |-> "ok", value |-> JOther("array")],
      [first |-> "\"", parse |-> "ok", value |-> JOther("string")],
      [first |-> "1", parse |-> "ok", value |-> JOther("number")],
      [first |-> "x", parse |-> "error", value |-> NoDoc],
      [first |-> "", parse |-> "error", value |-> NoDoc] }

InitJson ==
    /\ \E n \in 0..MaxWs, b \in Bodies : json_f = Stream(n, b.first, b.parse, b.value)
    /\ encoding_kw \in BOOLEAN
    /\ json_pc = "call"
    /\ json_ret = NoDoc
    /\ json_exc = "none"
    /\ IdleIter
    /\ IdleStats
    /\ IdleBatch
    /\ IdleUtil

NextJson == CallGetCldfJson

SpecJson == InitJson /\ [][NextJson]_vars

\* ------------------------------------------------- inputs of stats_from_zip
CLDF == <<"cldf", "/">>
ValuesSchema ==
    << Column(S("ID"), TermUrl(id)),
       Column(S("Language_ID"), TermUrl(languageReference)),
       Column(S("Parameter_ID"), TermUrl(parameterReference)),
       Column(S("Value"), TermUrl(S("value"))) >>
LanguagesSchema ==
    << Column(S("ID"), TermUrl(id)),
       Column(S("Name"), TermUrl(S("name"))),
       Column(S("Glottocode"), TermUrl(glottocode)),
       Column(S("ISO639P3code"), TermUrl(iso639P3code)) >>
ValuesRows ==
    << <<S("ID"), S("Language_ID"), S("Parameter_ID"), S("Value")>>,
       <<S("v1"), S("l1"), S("p1"), S("x")>>,
       <<S("v2"), S("l1"), S("p2"), S("x")>>,
       <<S("v3"), S("l2"), <<>>, S("x")>>,
       <<S("v4"), <<>>, S("p1"), S("x")>>,
       <<S("v5"), S("l3"), S("p1"), S("x")>>,
       <<S("v6"), S("l4"), S("p2"), S("x")>> >>
LanguagesRows ==
    << <<S("ID"), S("Name"), S("Glottocode"), S("ISO639P3code")>>,
       <<S("l1"), S("One"), S("glot1234"), S("iso")>>,
       <<S("l2"), S("Two"), <<>>, S("two")>>,
       <<S("l3"), S("Three"), <<>>, <<>>>> >>
StructureDoc ==
    CldfDoc("StructureDataset", EmptyMap,
            << Table(TermUrl(ValueTable), <<"values", ".csv">>, EmptyMap, ValuesSchema),
               Table(TermUrl(LanguageTable), <<"languages", ".csv">>, EmptyMap,
                     LanguagesSchema) >>)
WordlistDoc ==
    CldfDoc("Wordlist", EmptyMap,
            << Table(TermUrl(FormTable), CLDF \o <<"values", ".csv">>, EmptyMap,
                     ValuesSchema) >>)
EntryPool ==
    { JsonEntry(CLDF \o <<"md", ".json">>, ObjectStream(0, StructureDoc)),
      CsvEntry(CLDF \o <<"values", ".csv">>, ValuesRows),
      CsvEntry(CLDF \o <<"languages", ".csv">>, LanguagesRows),
      \* a nested archive for values.csv that does not hold values.csv
      ZipEntry(CLDF \o <<"values", ".csv", ".zip">>,
               <<Inner(<<"other", ".txt">>, <<>>)>>),
      JsonEntry(<<"wordlist", ".json">>, ObjectStream(1, WordlistDoc)),
      JsonEntry(<<"raw", "/", "md", ".json">>,
                ObjectStream(0, CldfDoc("Generic", EmptyMap, <<>>))),
      JsonEntry(<<"package", ".json">>,
                ObjectStream(0, JObject(FALSE, FALSE, <<>>, EmptyMap, <<>>))),
      JsonEntry(<<"broken", ".json">>, Stream(0, "{", "error", NoDoc)),
      CsvEntry(<<"README", ".md">>, <<>>) }
\* archives: up to MaxEntries different entries in any order
StatArchives ==
    {a \in SeqsUpTo(EntryPool, MaxEntries) :
        \A i, j \in DOMAIN a : i # j => a[i] # a[j]}

InitStats ==
    /\ \E a \in StatArchives, ok \in BOOLEAN :
         /\ ok \/ a = <<>>
         /\ args = [record_no |-> "1234", name |-> <<"data", ".zip">>,
                    zip |-> a, readable |-> ok]
    /\ zs_pc = "call"
    /\ zs_exc = "none"
    /\ zs_k = 0
    /\ found_data = FALSE
    /\ result = <<>>
    /\ IdleIter
    /\ encoding_kw \in BOOLEAN
    /\ json_f = Stream(0, "", "error", NoDoc)
    /\ json_pc = "idle"
    /\ json_ret = NoDoc
    /\ json_exc = "none"
    /\ IdleBatch
    /\ IdleUtil

NextStats == StatsOpen \/ StatsScan \/ StatsFinish

SpecStats == InitStats /\ [][NextStats]_vars

\* --------------------------------------------------- inputs of cmd_makecldf
MaxBatch == 3
\* archives with one, no and two valid metadata documents, one whose nested
\* values.csv.zip lacks values.csv, and a file that is no zip archive
OneDoc ==
    << JsonEntry(CLDF \o <<"md", ".json">>, ObjectStream(0, StructureDoc)),
       CsvEntry(CLDF \o <<"values", ".csv">>, ValuesRows),
       CsvEntry(CLDF \o <<"languages", ".csv">>, LanguagesRows) >>
NoDocs == << CsvEntry(<<"README", ".md">>, <<>>) >>
TwoDocs ==
    << JsonEntry(<<"wordlist", ".json">>, ObjectStream(1, WordlistDoc)),
       JsonEntry(CLDF \o <<"md", ".json">>, ObjectStream(0, StructureDoc)) >>
BadNested ==
    << JsonEntry(CLDF \o <<"md", ".json">>, ObjectStream(0, StructureDoc)),
       ZipEntry(CLDF \o <<"values", ".csv", ".zip">>,
                <<Inner(<<"other", ".txt">>, <<>>)>>) >>
BatchFiles ==
    { [zip |-> z, readable |-> TRUE] : z \in {OneDoc, NoDocs, TwoDocs, BadNested} }
       \cup { [zip |-> <<>>, readable |-> FALSE] }
\* record numbers by position: one archive per record, or two per record
RecordNos == { [n \in 1..MaxBatch |-> n], [n \in 1..MaxBatch |-> (n + 1) \div 2] }

InitBatch ==
    /\ \E files \in SeqsUpTo(BatchFiles, MaxBatch), recs \in RecordNos :
         data_archives =
            [n \in DOMAIN files |->
                [record_no |-> recs[n], name |-> <<"data", ".zip">>,
                 zip |-> files[n].zip, readable |-> files[n].readable]]
    /\ task = [n \in DOMAIN data_archives |-> [st |-> "queued", list |-> <<>>]]
    /\ merged = 0
    /\ dataset_stats = <<>>
    /\ origin = <<>>
    /\ cldf_errors = <<>>
    /\ mk_pc = "pool"
    /\ mk_exc = "none"
    /\ datasets = <<>>
    /\ encoding_kw \in BOOLEAN
    /\ json_f = Stream(0, "", "error", NoDoc)
    /\ json_pc = "idle"
    /\ json_ret = NoDoc
    /\ json_exc = "none"
    /\ IdleIter
    /\ IdleStats
    /\ IdleUtil

NextBatch == WorkerRun \/ MergeChunk \/ Assemble

SpecBatch == InitBatch /\ [][NextBatch]_vars

\* -------------------------------------------------- inputs of path_contains
MaxDepth == 2
usr == <<"u", "s", "r">>
share == <<"s", "h", "a", "r", "e">>
icons == <<"i", "c", "o", "n", "s">>
icon == <<"i", "c", "o", "n">>
Adwaita == <<"A", "d", "w", "a", "i", "t", "a">>
index_theme == <<"i", "n", "d", "e", "x", ".", "t", "h", "e", "m", "e">>
\* /usr/share/icons/Adwaita/index.theme
ThemePath == AnchoredPath(TRUE, <<usr, share, icons, Adwaita, index_theme>>)
\* 'local', 'share', 'icons?', 'icon', 's*' and ''
Regexes ==
    { Lit(<<"l", "o", "c", "a", "l">>), Lit(share),
      Lit(icon) \o Quant("s", "?"), Lit(icon), Quant("s", "*"), <<>> }
PathPool ==
    {ThemePath} \cup
    { AnchoredPath(abs, segs) :
        abs \in BOOLEAN, segs \in SeqsUpTo({share, icons, icon}, MaxDepth) }

InitPath ==
    /\ pcn_arg \in PathPool
    /\ pcn_path = pcn_arg
    /\ pcn_regex \in Regexes
    /\ pcn_pc = "loop"
    /\ pcn_ret = FALSE
    /\ IdleHtml
    /\ IdleTools
    /\ IdleIter
    /\ IdleJson
    /\ IdleStats
    /\ IdleBatch

NextPath == PathContainsStep

SpecPath == InitPath /\ [][NextPath]_vars

\* --------------------------------------------------- inputs of extract_json
MaxElems == 3
\* {&#34;key&#34;: &#34;value&#34;} as it stands in the page
EscapedJson(k, v) == <<"{", "&#34;", k, "&#34;", ":", "&#34;", v, "&#34;", "}">>
GoodPre == Element("pre", PRE_WRAP, EscapedJson("key", "value"))
GoodPre2 == Element("pre", PRE_WRAP, EscapedJson("key 2", "value 2"))
OtherPre == Element("pre", <<>>, <<"I am some other kind of code">>)
ElementPool ==
    { Element("p", <<>>, <<"no json">>),
      Element("p", PRE_WRAP, EscapedJson("key", "value")),
      OtherPre,
      Element("pre", <<"white-space: pre;">>, EscapedJson("key", "value")),
      GoodPre, GoodPre2,
      Element("pre", PRE_WRAP, <<"I am some other kind of code">>) }

InitHtml ==
    /\ html_string \in SeqsUpTo(ElementPool, MaxElems)
    /\ ex_pc = "call"
    /\ ex_ret = NoneVal
    /\ ex_exc = "none"
    /\ IdlePath
    /\ IdleTools
    /\ IdleIter
    /\ IdleJson
    /\ IdleStats
    /\ IdleBatch

NextHtml == CallExtractJson

SpecHtml == InitHtml /\ [][NextHtml]_vars

\* -------------------------------------------------------- inputs of cleanup
\* rows of not-cldf.csv listed at most
MaxListed == 2
RecordDirs == {"101", "102"}
ArchiveNames == {<<"a", ".zip">>, <<"b", ".zip">>}
OtherNames == {<<"keep", ".txt">>}
\* (record_no, file, reason) rows without a repeated file, as cmd_makecldf
\* writes them
ListedRows ==
    { rows \in SeqsUpTo({<<r, n, "nocldf">> : r \in RecordDirs, n \in ArchiveNames},
                        MaxListed) :
        \A i, j \in DOMAIN rows : i # j => rows[i] # rows[j] }
Answers ==
    { <<"y">>, <<"Y">>, <<" ", "Y", "e", "s", "\n">>, <<"y", "e", "s">>,
      <<>>, <<"n">>, <<"N">>, <<"y", "e">>, <<"y", " ", "e", "s">> }
InitCleanup ==
    /\ etc_not_cldf \in ListedRows
    /\ fs_files \in SUBSET (RecordDirs \X (ArchiveNames \cup OtherNames))
    /\ fs_dirs \in {d \in SUBSET RecordDirs : \A f \in fs_files : f[1] \in d}
    /\ fs_files0 = fs_files
    /\ fs_dirs0 = fs_dirs
    /\ not_cldf = <<>>
    /\ answer = <<>>
    /\ cl_pc = "call"
    /\ cl_exc = "none"
    /\ cl_k = 0
    /\ IdleGlotto
    /\ IdleDownload
    /\ IdleIter
    /\ IdleJson
    /\ IdleStats
    /\ IdleBatch
    /\ IdlePath
    /\ IdleHtml
NextCleanup == CleanupList \/ CleanupAnswer(Answers) \/ CleanupRemove
SpecCleanup == InitCleanup /\ [][NextCleanup]_vars

\* ------------------------------------------- inputs of the language counts
\* value rows counted at most
MaxValues == 3
\* the languoids of Glottolog, in the order of their glottocodes
Languoids == << [id |-> "abcd1234", iso |-> "abc"], [id |-> "efgh5678", iso |-> ""] >>
GlottologIds == [n \in DOMAIN Languoids |-> Languoids[n].id]
\* by_glottocode = {l.id: l for l in languoids()}
ByGlottocode ==
    [g \in Range(GlottologIds) |-> CHOOSE l \in Range(Languoids) : l.id = g]
\* by_isocode = {l.iso: l for l in by_glottocode.values() if l.iso}
ByIsocode ==
    [c \in {l.iso : l \in {x \in Range(Languoids) : x.iso # ""}} |->
        CHOOSE l \in Range(Languoids) : l.iso = c]
\* (languageReference, parameterReference) of a value row
ValuePairs ==
    { <<"l1", "p1">>, <<"l2", "p1">>, <<"l2", "p2">>, <<"l3", "p1">>, <<"l1", "">> }
\* what the LanguageTable gives for each language id: glottocode, else ISO
\* code, else the id itself
Guesses ==
    { [l \in {"l1", "l2", "l3"} |-> CASE l = "l1" -> "abcd1234" [] l = "l2" -> g2
                                      [] OTHER -> g3] :
        g2 \in {"abc", "abcd1234", "l2"}, g3 \in {"l3", "efgh5678"} }
\* the statistics collect_dataset_stats returns for these rows, its counters
\* in the order the languages first occur
RawStats(values, forms, entries, examples, guess) ==
    LET refs(rows) == CounterItems([i \in DOMAIN rows |-> StrKey(rows[i])])
        lang_values == CounterItems([i \in DOMAIN values |-> StrKey(values[i][1])])
        withp == SelectSeq(values, LAMBDA v : v[2] # "")
        lang_features ==
            CounterItems([i \in DOMAIN withp |-> TupleKey(withp[i][1], withp[i][2])])
        lang_iter == lang_values \o refs(forms) \o refs(examples) \o refs(entries)
    IN  [module |-> "StructureDataset",
         value_count |-> Len(values),
         langs |-> [k \in {lang_iter[i].key : i \in DOMAIN lang_iter} |-> guess[k.l]],
         lang_values |-> lang_values,
         lang_features |-> lang_features,
         lang_forms |-> refs(forms),
         lang_entries |-> refs(entries),
         lang_examples |-> refs(examples)]
DatasetId == <<1, 1>>
InitGlotto ==
    /\ value_rows \in SeqsUpTo(ValuePairs, MaxValues)
    /\ form_rows \in {<<>>, <<"l1">>, <<"l2", "l1", "l1">>}
    /\ entry_rows \in {<<>>, <<"l1", "l2">>}
    /\ example_rows \in {<<>>, <<"l2", "l1", "l2">>}
    /\ \E guess \in Guesses :
         raw_stats = RawStats(value_rows, form_rows, entry_rows, example_rows, guess)
    /\ glotto_stats = NoneVal
    /\ dataset_languages = <<>>
    /\ gs_pc = "collected"
    /\ IdleClean
    /\ IdleDownload
    /\ IdleIter
    /\ IdleJson
    /\ IdleStats
    /\ IdleBatch
    /\ IdlePath
    /\ IdleHtml
NextGlotto ==
    \/ ConvertStats(ByGlottocode, ByIsocode)
    \/ AssembleLanguages(DatasetId, GlottologIds)
SpecGlotto == InitGlotto /\ [][NextGlotto]_vars

\* --------------------------------------------------- inputs of cmd_download
ZipA == ZFile(<<"a", ".zip">>, "zip")
ZipB == ZFile(<<"b", ".zip">>, "zip")
ZipC == ZFile(<<"c", ".zip">>, "zip")
PdfD == ZFile(<<"d", ".pdf">>, "pdf")
\* two records: two archives; an archive and a file that is no archive
RecordPool ==
    { <<ZRecord("101", b1, <<ZipA, ZipB>>), ZRecord("102", b2, <<ZipC, PdfD>>)>> :
        b1 \in BOOLEAN, b2 \in BOOLEAN }
FailureCodes == {429, 500}
InitDownload ==
    /\ zenodo_records \in RecordPool
    /\ files_without_cldf \in SUBSET {<<"101", ZipB.name>>, <<"102", ZipC.name>>}
    /\ raw_files \in SUBSET {<<"101", ZipA.name>>, <<"101", ZipB.name>>,
                             <<"102", ZipC.name>>}
    /\ file_urls = <<>>
    /\ dl_pc = "call"
    /\ dl_exc = "none"
    /\ gen_url = 0
    /\ gen_attempt = 0
    /\ requests = <<>>
    /\ payloads = <<>>
    /\ written = <<>>
    /\ IdleClean
    /\ IdleGlotto
    /\ IdleIter
    /\ IdleJson
    /\ IdleStats
    /\ IdleBatch
    /\ IdlePath
    /\ IdleHtml
NextDownload == CmdDownloadStart \/ RequestOk \/ RequestFails(FailureCodes)
SpecDownload == InitDownload /\ [][NextDownload]_vars

\* ------------------------------------------------- statements about iterrows
\* the generator has run (at least one next()) and was not closed by the consumer
Ran == pc \in {"suspended", "returned", "raised"}
\* some entry of `tables` has dc:conformsTo = TERMS_URL + '#' + table_arg
Declared ==
    \E i \in DOMAIN cldf_md.tables :
        cldf_md.tables[i].conformsTo = TermUrl(table_arg)
\* the first such entry
TheTable ==
    cldf_md.tables[CHOOSE i \in DOMAIN cldf_md.tables :
        /\ cldf_md.tables[i].conformsTo = TermUrl(table_arg)
        /\ \A k \in 1..(i - 1) : cldf_md.tables[k].conformsTo # TermUrl(table_arg)]
\* the built-in defaults as the spec lists them (trim, headerRowCount unset)
BuiltIn(f) ==
    CASE f = "commentPrefix" -> JStr("#")
      [] f = "delimiter" -> JStr(",")
      [] f = "doubleQuote" -> JBool(TRUE)
      [] f = "encoding" -> JStr("utf-8")
      [] f = "header" -> JBool(TRUE)
      [] f = "quoteChar" -> JStr("\"")
      [] f = "skipBlankRows" -> JBool(FALSE)
      [] f = "skipColumns" -> JNum(0)
      [] f = "skipRows" -> JNum(0)
      [] f = "skipInitialSpace" -> JBool(FALSE)
      [] OTHER -> PyNone
\* table level, else document level, else built-in default
Effective(td, dd, f) ==
    IF f \in DOMAIN td THEN td[f]
    ELSE IF f \in DOMAIN dd THEN dd[f]
    ELSE BuiltIn(f)
\* the resolved path of the table and its two archive-index keys
Resolved == StripParents(TheTable.url, md_root)
ZipKey == PathJoin(Resolved.root, Resolved.relpath \o <<".zip">>)
PlainKey == PathJoin(Resolved.root, Resolved.relpath)
FinalName == PathName(PathOf(Resolved.relpath))

\* C1: when no entry of `tables` conforms to TERMS_URL#name, iterrows yields
\* nothing, raises nothing and opens nothing, whatever the dialects and the
\* archive hold.
C1_UndeclaredTableYieldsNothing ==
    ~Declared =>
        /\ yielded = <<>>
        /\ exc = "none"
        /\ opened = <<>>
        /\ pc \in {"created", "returned", "closed"}
C1_Witness ==
    /\ ~Declared
    /\ pc = "returned"
    /\ cldf_md.tables = <<FormDescriptor>>
    /\ cldf_md.dialect = One("header", JBool(FALSE))
    /\ zip_file = <<PlainB, NestedB>>

\* C2: a declared table with a supported dialect (header true, headerRowCount
\* absent or 1) whose resolved path and path + '.zip' are both missing from
\* the archive index gives an empty sequence, no exception, no entry opened.
C2_MissingFileYieldsNothing ==
    (/\ Ran
     /\ Declared
     /\ Truthy(Effective(TheTable.dialect, cldf_md.dialect, "header"))
     /\ Effective(TheTable.dialect, cldf_md.dialect, "headerRowCount")
            \in {PyNone, JNum(1)}
     /\ ZipKey \notin DOMAIN zip_infos
     /\ PlainKey \notin DOMAIN zip_infos)
    => (pc = "returned" /\ exc = "none" /\ yielded = <<>> /\ opened = <<>>)

\* C3: when the index holds the resolved path + '.zip', that entry is opened
\* (before and instead of the plain path) as a nested archive, and the rows
\* come from the first inner entry, in listing order, whose name ends with
\* the final component of the table url; the plain path is opened only when
\* the '.zip' key is absent.
C3_NestedArchiveFallback ==
    (Ran /\ Declared /\ exc # "AssertionError") =>
        /\ (ZipKey \in DOMAIN zip_infos) =>
              LET zi == zip_infos[ZipKey]
                  inner == zip_file[zi].inner
                  hits == {j \in DOMAIN inner : EndsWith(inner[j].filename, FinalName)}
              IN  /\ opened # <<>> /\ opened[1] = HEntry(zi)
                  /\ zip_file[zi].kind = "zip" =>
                        /\ Len(opened) >= 2 /\ opened[2] = HZipFile(zi)
                        /\ \A j \in hits :
                              (\A k \in hits : j <= k) =>
                                 /\ opened = <<HEntry(zi), HZipFile(zi), HInner(j)>>
                                 /\ src = inner[j].rows
                                 /\ \A n \in DOMAIN yielded :
                                      \A c \in DOMAIN yielded[n] :
                                        \E r \in DOMAIN inner[j].rows :
                                          yielded[n][c] \in Range(inner[j].rows[r])
        /\ (ZipKey \notin DOMAIN zip_infos /\ PlainKey \in DOMAIN zip_infos) =>
              opened # <<>> /\ opened[1] = HEntry(zip_infos[PlainKey])
        /\ (ZipKey \notin DOMAIN zip_infos /\ PlainKey \notin DOMAIN zip_infos) =>
              opened = <<>>
C3_Witness ==
    /\ pc = "suspended"
    /\ zip_file = <<PlainB, NestedB>>
    /\ opened = <<HEntry(2), HZipFile(2), HInner(2)>>
    /\ Len(yielded) = 1
    /\ yielded[1][id] = <<"a", "3">>

\* C4: every Row handed out has only non-empty keys from the requested
\* names and only non-empty values; a requested name whose cells in the source
\* row are all empty or missing is not a key of the Row.
C4_RowsHoldOnlyRequestedNonEmpty ==
    /\ \A n \in DOMAIN yielded :
          \A c \in DOMAIN yielded[n] :
              /\ c # <<>>
              /\ c \in Range(column_names)
              /\ yielded[n][c] # <<>>
    /\ (pc = "suspended") =>
          LET raw == src[rdr_pos]
              off == dialect["skipColumns"].n
              cell(i) == IF i + off <= Len(raw) THEN raw[i + off] ELSE <<>>
          IN  \A i \in DOMAIN header :
                 (\A j \in DOMAIN header : header[j] = header[i] => cell(j) = <<>>)
                    => header[i] \notin DOMAIN yielded[Len(yielded)]
C4_Witness ==
    /\ pc = "suspended"
    /\ src[rdr_pos] = <<<<>>, S("b")>>
    /\ header = <<id, languageReference, my_custom_col>>
    /\ column_names = <<id, languageReference>>
    /\ DOMAIN yielded[Len(yielded)] = {languageReference}

\* C5: a header cell h becomes the requested name s exactly when a declared
\* column named h has propertyUrl TERMS_URL#s and s is requested; every other
\* header cell keeps its raw name.  So an untagged column is emitted only
\* under its raw name, and in the example requesting my_custom_col gives
\* {my_custom_col: c} and requesting id gives {id: a}.
C5_HeaderProjection ==
    (pc = "suspended") =>
        LET cols == TheTable.columns
            raw == PullRow(src, 0, dialect, TRUE).row
            tag(h, s) == \E k \in DOMAIN cols :
                            /\ cols[k].name = h
                            /\ cols[k].propertyUrl = TermUrl(s)
                            /\ s \in Range(column_names)
        IN  /\ Len(header) = Len(raw)
            /\ \A i \in DOMAIN raw :
                  /\ \A s \in Range(column_names) : tag(raw[i], s) => header[i] = s
                  /\ (\A s \in Range(column_names) : ~tag(raw[i], s))
                        => header[i] = raw[i]
            /\ \A k \in DOMAIN cols :
                  (cols[k].propertyUrl = NoUrl /\ cols[k].name \notin Range(column_names))
                     => \A i \in DOMAIN raw :
                           raw[i] = cols[k].name
                              => header[i] \notin DOMAIN yielded[Len(yielded)]
            /\ (/\ cols = ExampleColumns
                /\ raw = HeaderRow
                /\ src[rdr_pos] = <<S("a"), S("b"), S("c")>>
                /\ dialect["skipColumns"].n = 0) =>
                  /\ column_names = <<my_custom_col>> =>
                        yielded[Len(yielded)] = [x \in {my_custom_col} |-> S("c")]
                  /\ column_names = <<id>> =>
                        yielded[Len(yielded)] = [x \in {id} |-> S("a")]
C5_Witness ==
    /\ pc = "suspended"
    /\ TheTable.columns = ExampleColumns
    /\ column_names = <<my_custom_col>>
    /\ header = HeaderRow
    /\ yielded = << [x \in {my_custom_col} |-> S("c")] >>

\* C6: each dialect field resolves on its own: table level if the table
\* dialect has the field, else document level, else the built-in default; an
\* override of one field at either level changes no other field's value.
C6_DialectPerField ==
    (Ran /\ Declared) =>
        LET td == TheTable.dialect
            dd == cldf_md.dialect
        IN  /\ \A f \in Fields : dialect[f] = Effective(td, dd, f)
            /\ (dd = One("delimiter", JStr(";")) /\ "delimiter" \notin DOMAIN td)
                  => dialect["delimiter"] = JStr(";")
            /\ ("delimiter" \in DOMAIN td /\ td["delimiter"] = JStr(","))
                  => dialect["delimiter"] = JStr(",")
            /\ \A f \in Fields : \A v \in FieldValues(f) : \A g \in Fields \ {f} :
                  /\ ChainGet(<<One(f, v) @@ td, dd, default_dialect>>, g) = dialect[g]
                  /\ ChainGet(<<td, One(f, v) @@ dd, default_dialect>>, g) = dialect[g]
C6_Witness ==
    /\ Ran
    /\ cldf_md.dialect = One("delimiter", JStr(";"))
    /\ TheTable.dialect = One("skipRows", JNum(1))
    /\ dialect["delimiter"] = JStr(";")
    /\ dialect["skipRows"] = JNum(1)
    /\ dialect["quoteChar"] = JStr("\"")

\* C7: as far as headerRowCount goes, iterrows on a declared table fails on
\* the first pull iff the resolved headerRowCount is present and not 1.
C7_MultiRowHeaderRejected ==
    (/\ Ran
     /\ Declared
     /\ Truthy(Effective(TheTable.dialect, cldf_md.dialect, "header")))
    => ((pc = "raised" /\ exc = "AssertionError")
          <=> Effective(TheTable.dialect, cldf_md.dialect, "headerRowCount")
                 \notin {PyNone, JNum(1)})

\* C8: a nested '.zip' entry without an inner entry ending in the final
\* component of the url gives zero rows, no exception, all handles closed.
C8_NestedNoMatchYieldsNothing ==
    (/\ Ran
     /\ Len(opened) >= 2
     /\ opened[2].h = "ZipFile"
     /\ \A j \in DOMAIN zip_file[opened[2].i].inner :
           ~EndsWith(zip_file[opened[2].i].inner[j].filename, FinalName))
    => (pc = "returned" /\ exc = "none" /\ yielded = <<>> /\ withs = <<>>)

\* --------------------------------------- statements about get_cldf_json
\* the stream qualifies as a metadata document: '{' within the first 10
\* bytes after leading whitespace, valid JSON, dc:conformsTo a string that
\* starts with TERMS_URL
Qualifies(f) ==
    /\ f.lead < 10
    /\ f.first = "{"
    /\ f.parse = "ok"
    /\ f.value.type = "object"
    /\ f.value.has
    /\ f.value.isstr
    /\ f.value.profile # <<>>
    /\ f.value.profile[1] = TERMS_URL

\* C9: get_cldf_json never raises; it returns the parsed document only for a
\* stream that qualifies (brace within the first 10 bytes after whitespace,
\* valid JSON, string profile starting with TERMS_URL) and None for every
\* other stream.
C9_GetCldfJsonNeverRaises ==
    (json_pc = "done") =>
        /\ json_exc = "none"
        /\ json_ret # NoDoc => (Qualifies(json_f) /\ json_ret = json_f.value)
        /\ ~Qualifies(json_f) => json_ret = NoDoc
C9_Witness ==
    /\ json_pc = "done"
    /\ json_f.lead = 9
    /\ json_ret = CldfDoc("Wordlist", EmptyMap, <<>>)
    /\ json_exc = "none"

\* --------------------------------------- statements about stats_from_zip
\* the entries of the archive that are valid metadata documents: the entry
\* the index keeps for a path with suffix .json, holding a stream that
\* qualifies
ValidDocs ==
    {i \in DOMAIN args.zip :
        /\ \A j \in DOMAIN args.zip :
              PathOf(args.zip[j].filename) = PathOf(args.zip[i].filename) => j <= i
        /\ PathSuffix(PathOf(args.zip[i].filename)) = <<".json">>
        /\ args.zip[i].stream # <<>>
        /\ Qualifies(args.zip[i].stream[1])}

\* C10: for every archive, stats_from_zip returns either one (stats, None)
\* pair per valid metadata document and no error, or exactly one
\* (None, CLDFError(record_no, file name, 'nocldf')) and no stats; the error
\* form comes iff the archive has no valid metadata document.
C10_StatsOrNoData ==
    (zs_pc \in {"done", "raised"} /\ args.readable) =>
        /\ zs_pc = "done"
        /\ zs_exc = "none"
        /\ IF ValidDocs = {}
           THEN result = << <<NoneVal, CLDFError(args.record_no, args.name, "nocldf")>> >>
           ELSE /\ Len(result) = Cardinality(ValidDocs)
                /\ \A n \in DOMAIN result :
                      result[n][1] # NoneVal /\ result[n][2] = NoneVal

\* ------------------------------------- statements about the raw/test filter
\* the path has a directory segment named raw, test or tests
UnderRawOrTest(p) ==
    \E k \in 1..(Len(p) - 1) : p[k] \in {S("raw"), S("test"), S("tests")}
\* the valid metadata documents that are candidates: not under raw/test/tests
Candidates == {i \in ValidDocs : ~UnderRawOrTest(PathOf(args.zip[i].filename))}

\* C11: the aggregator takes statistics only from '.json' entries with no
\* path segment named raw, test or tests; a valid document under such a
\* segment gives no statistics and does not prevent the 'nocldf' error.
C11_RawAndTestSkipped ==
    (zs_pc = "done" /\ encoding_kw) =>
        IF Candidates = {}
        THEN result = << <<NoneVal, CLDFError(args.record_no, args.name, "nocldf")>> >>
        ELSE /\ Len(result) = Cardinality(Candidates)
             /\ \A n \in DOMAIN result : result[n][2] = NoneVal

\* --------------------------------------- statements about cmd_makecldf
\* the archives of the batch that stats_from_zip handles without exception
Healthy == {i \in DOMAIN data_archives : StatsFromZip(data_archives[i]).st = "ok"}
\* what sequential processing in archive order gathers from archives 1..m
RECURSIVE SeqStats(_)
SeqStats(m) ==
    IF m = 0 THEN <<>>
    ELSE SeqStats(m - 1) \o ChunkVals(StatsFromZip(data_archives[m]).list)
RECURSIVE SeqErrors(_)
SeqErrors(m) ==
    IF m = 0 THEN <<>>
    ELSE SeqErrors(m - 1) \o ChunkErrs(StatsFromZip(data_archives[m]).list)

\* C12: one bad archive never aborts the batch: whatever fails inside one
\* archive, cmd_makecldf does not raise, and once the tables are assembled
\* the statistics of every healthy archive of the batch have been gathered.
C12_BadArchiveNeverAbortsBatch ==
    (Healthy # {}) =>
        /\ mk_pc # "raised"
        /\ mk_pc = "done" =>
              \A i \in Healthy :
                 Cardinality({n \in DOMAIN origin : origin[n] = i})
                    = Len(ChunkVals(StatsFromZip(data_archives[i]).list))

\* --------------------------------------- statements about the handles
\* C13: once the row iteration has ended (exhausted, raised, or closed by the
\* consumer) every handle iterrows opened is closed, in reverse order of
\* opening (inner entry, nested archive, outer entry); nothing is opened
\* before the first pull and nothing is closed while rows are still to come.
C13_HandlesClosedInReverse ==
    /\ pc \in {"returned", "raised", "closed"} =>
          /\ withs = <<>>
          /\ Len(closed) = Len(opened)
          /\ \A k \in DOMAIN closed : closed[k] = opened[Len(opened) + 1 - k]
    /\ pc = "suspended" => (closed = <<>> /\ withs = opened /\ opened # <<>>)
    /\ pc = "created" => (opened = <<>> /\ closed = <<>>)
C13_Witness ==
    /\ pc = "closed"
    /\ Len(yielded) = 1
    /\ zip_file = <<NestedB>>
    /\ opened = <<HEntry(1), HZipFile(1), HInner(2)>>
    /\ closed = <<HInner(2), HZipFile(1), HEntry(1)>>

\* --------------------------------------- statements about laziness
\* the raw rows that come through the row filters: behind the skipRows
\* leading rows, not blank when blank rows are skipped, not a comment; the
\* first of them is the header
Passing ==
    {i \in DOMAIN src :
        /\ i > dialect["skipRows"].n
        /\ ~(Truthy(dialect["skipBlankRows"]) /\ ~AnyCell(src[i]))
        /\ ~IsComment(src[i], dialect)}

\* C14: iterrows is pull-based: before the first pull nothing is opened and
\* nothing is read, and when the k-th Row is handed out the parser has
\* delivered the raw rows up to the source row of that Row and none after it.
C14_PullBased ==
    /\ pc = "created" => (opened = <<>> /\ src = <<>> /\ rdr_pos = 0)
    /\ pc = "suspended" =>
          /\ rdr_pos \in Passing
          /\ Cardinality({i \in Passing : i <= rdr_pos}) = Len(yielded) + 1
          /\ yielded[Len(yielded)] =
                RowDict(header, DropColumns(src[rdr_pos], dialect), column_names)
C14_Witness ==
    /\ pc = "suspended"
    /\ Len(yielded) = 1
    /\ Len(src) = 3
    /\ rdr_pos = 2
    /\ src[3] # src[2]

\* --------------------------------------- statements about path_contains
\* C15: path_contains(path, regex) returns True iff an element of the path
\* fully matches regex; for /usr/share/icons/Adwaita/index.theme that is
\* False for 'local', True for 'share' and True for 'icons?'.
C15_PathContainsIffElementMatches ==
    (pcn_pc = "done") =>
        /\ pcn_ret = (\E k \in DOMAIN pcn_arg.segs :
                         FullMatch(pcn_regex, pcn_arg.segs[k]))
        /\ (pcn_arg = ThemePath /\ pcn_regex = Lit(<<"l", "o", "c", "a", "l">>))
              => pcn_ret = FALSE
        /\ (pcn_arg = ThemePath /\ pcn_regex = Lit(share)) => pcn_ret = TRUE
        /\ (pcn_arg = ThemePath /\ pcn_regex = Lit(icon) \o Quant("s", "?"))
              => pcn_ret = TRUE

\* --------------------------------------- statements about langs
\* the raw data rows of cldf/<name> in the archive, none when it is missing
DataRowsOf(name) ==
    LET hits == {i \in DOMAIN args.zip : args.zip[i].filename = CLDF \o name}
        rows == args.zip[MaxOf(hits)].rows
    IN  IF hits = {} THEN {} ELSE {rows[k] : k \in 2..Len(rows)}
\* the languages the value rows refer to (column 2 of ValuesSchema)
Referenced ==
    {r[2] : r \in {x \in DataRowsOf(<<"values", ".csv">>) : x[2] # <<>>}}
\* glottocode, else ISO code, else the identifier itself (columns 3 and 4 of
\* LanguagesSchema); the identifier when no language row has it
GlobalId(v) ==
    LET rows == {r \in DataRowsOf(<<"languages", ".csv">>) : r[1] = v}
        r == CHOOSE x \in rows : TRUE
    IN  IF rows = {} THEN v
        ELSE IF r[3] # <<>> THEN r[3]
        ELSE IF r[4] # <<>> THEN r[4]
        ELSE v

\* C16: langs maps every language referenced by a value, form, entry or
\* example row to the glottocode of its LanguageTable row, else to that row's
\* iso639P3code, else to itself, and to itself when it has no row; its keys
\* are exactly the referenced languages.
C16_LangsPreferGlottocode ==
    /\ \A n \in DOMAIN result :
        (result[n][1] # NoneVal /\ result[n][1].module = S("StructureDataset")) =>
            /\ DOMAIN result[n][1].langs = Referenced
            /\ \A v \in Referenced : result[n][1].langs[v] = GlobalId(v)
    /\ \A n \in DOMAIN result :
        (result[n][1] # NoneVal /\ result[n][1].module = S("Wordlist")) =>
            /\ DOMAIN result[n][1].langs = Referenced
            /\ \A v \in Referenced : result[n][1].langs[v] = v
C16_Witness ==
    /\ zs_pc = "done"
    /\ Len(result) = 1
    /\ result[1][1] # NoneVal
    /\ result[1][1].langs =
          (S("l1") :> S("glot1234")) @@ (S("l2") :> S("two"))
             @@ (S("l3") :> S("l3")) @@ (S("l4") :> S("l4"))

\* --------------------------------------- statements about extract_json
\* the <pre style="white-space: pre-wrap;"> elements of the page
StyledPre ==
    {i \in DOMAIN html_string :
        html_string[i].tag = "pre" /\ html_string[i].style = PRE_WRAP}
\* the text of the only such element, character references decoded, is a
\* JSON object {"k": "v"}
OneValidCandidate ==
    /\ Cardinality(StyledPre) = 1
    /\ LET t == html_string[CHOOSE i \in StyledPre : TRUE].text
       IN  /\ Len(t) = 9
           /\ <<t[1], t[2], t[4], t[5], t[6], t[8], t[9]>>
                 = <<"{", "&#34;", "&#34;", ":", "&#34;", "&#34;", "}">>

\* C17 as stated: extract_json returns the parsed JSON object iff the page
\* has exactly one <pre style="white-space: pre-wrap;"> element, and raises
\* ValueError when it has none or more than one; other <pre> elements do not
\* count.
C17_ReturnsIffOneCandidate ==
    (ex_pc = "done") =>
        /\ (ex_exc = "none" /\ ex_ret # NoneVal) <=> Cardinality(StyledPre) = 1
        /\ Cardinality(StyledPre) # 1 => ex_exc = "ValueError"

\* C17 amended: extract_json returns the parsed JSON object iff the page has
\* exactly one <pre style="white-space: pre-wrap;"> element and the text of
\* that element is valid JSON; it raises ValueError when there is no such
\* element or more than one, and json.JSONDecodeError (a ValueError) when the
\* only candidate's text is not JSON; other <pre> elements do not count.
C17_ReturnsIffOneValidCandidate ==
    (ex_pc = "done") =>
        /\ (ex_exc = "none" /\ ex_ret # NoneVal) <=> OneValidCandidate
        /\ OneValidCandidate =>
              LET t == html_string[CHOOSE i \in StyledPre : TRUE].text
              IN  ex_ret = [k \in {t[3]} |-> t[7]]
        /\ Cardinality(StyledPre) # 1 => ex_exc = "ValueError"
        /\ (Cardinality(StyledPre) = 1 /\ ~OneValidCandidate)
              => ex_exc = "JSONDecodeError"
C17_Witness ==
    /\ ex_pc = "done"
    /\ html_string = <<OtherPre, Element("p", <<>>, <<"no json">>), GoodPre>>
    /\ ex_ret = [k \in {"key"} |-> "value"]
    /\ ex_exc = "none"

\* --------------------------------------- statements about the worker pool
\* C18: whatever the order in which the workers finish, the statistics and
\* the 'nocldf' errors the parent has gathered are those of sequential
\* processing of the archives merged so far, in archive order; an exception
\* that ends the batch is that of the first failing archive in archive order.
C18_PoolOrderDoesNotMatter ==
    /\ merged \in 0..Len(data_archives)
    /\ dataset_stats = SeqStats(merged)
    /\ cldf_errors = SeqErrors(merged)
    /\ \A i \in 1..merged : StatsFromZip(data_archives[i]).st = "ok"
    /\ mk_pc = "raised" =>
          /\ merged < Len(data_archives)
          /\ mk_exc = StatsFromZip(data_archives[merged + 1]).st
    /\ mk_pc = "done" => merged = Len(data_archives)
C18_Witness ==
    /\ mk_pc = "pool"
    /\ Len(data_archives) = 3
    /\ merged = 1
    /\ task[2].st = "queued"
    /\ task[3].st = "ok"
    /\ cldf_errors # <<>>
    /\ Len(task[3].list) = 2

\* ------------------------------------------- statements about datasets.csv
\* C19: every row of datasets.csv carries, as Contribution_ID and as the
\* record prefix of its ID, the record number of the archive its statistics
\* were extracted from.
C19_RowsCarryTheirArchiveRecord ==
    mk_pc = "done" =>
        \A n \in DOMAIN datasets :
            /\ datasets[n].Contribution_ID = data_archives[origin[n]].record_no
            /\ datasets[n].ID[1] = data_archives[origin[n]].record_no
            /\ datasets[n].Value_Count = dataset_stats[n].value_count

\* ------------------------------------- statements about path resolution
\* the number of leading '../' segments of a url
LeadingParents(url) ==
    CHOOSE n \in 0..(Len(url) \div 2) :
        /\ \A k \in 1..n : url[2 * k - 1] = ".." /\ url[2 * k] = "/"
        /\ ~(Len(url) >= 2 * n + 2 /\ url[2 * n + 1] = ".." /\ url[2 * n + 2] = "/")
\* what follows them
Remainder(url) == SubSeq(url, 2 * LeadingParents(url) + 1, Len(url))
\* the n-th ancestor of a directory; the ancestor of the root is the root
Ancestor(dir, n) == IF n >= Len(dir) THEN <<>> ELSE SubSeq(dir, 1, Len(dir) - n)
TableBase == Ancestor(md_root, LeadingParents(TheTable.url))
\* C20: for a table url of n leading '../' segments and a remainder r, the
\* entry opened is the one under (n-th ancestor of the metadata document's
\* directory) / (r + '.zip'), else the one under / r, else nothing is opened;
\* every leading '../' is consumed and the ancestor of the root is the root.
C20_ParentSegmentsResolved ==
    (Ran /\ Declared /\ exc # "AssertionError") =>
        LET zipped == PathJoin(TableBase, Remainder(TheTable.url) \o <<".zip">>)
            plain == PathJoin(TableBase, Remainder(TheTable.url))
        IN  IF zipped \in DOMAIN zip_infos
            THEN opened # <<>> /\ opened[1] = HEntry(zip_infos[zipped])
            ELSE IF plain \in DOMAIN zip_infos
            THEN opened # <<>> /\ opened[1] = HEntry(zip_infos[plain])
            ELSE opened = <<>>
C20_Witness ==
    /\ pc = "suspended"
    /\ Declared
    /\ LeadingParents(TheTable.url) = 2
    /\ md_root = <<S("a")>>
    /\ opened # <<>>
    /\ zip_file[opened[1].i].filename = B_CSV
    /\ yielded # <<>>

\* ------------------------------------------ statements about the row filters
\* the resolved value of a dialect field of the requested table
Eff(f) == Effective(TheTable.dialect, cldf_md.dialect, f)
\* the raw rows of the entry the table resolves to
RawRows == IF opened = <<>> THEN <<>> ELSE zip_file[opened[1].i].rows
\* a cell without its trailing whitespace
RECURSIVE RStrip(_)
RStrip(cell) ==
    IF cell # <<>> /\ cell[Len(cell)] = " "
    THEN RStrip(SubSeq(cell, 1, Len(cell) - 1))
    ELSE cell
\* the five steps, each over the whole list of rows
AfterSkipRows(rows) == SubSeq(rows, Eff("skipRows").n + 1, Len(rows))
AfterRightTrim(rows, on) ==
    IF on THEN [i \in DOMAIN rows |-> [j \in DOMAIN rows[i] |-> RStrip(rows[i][j])]]
    ELSE rows
AfterBlankRows(rows) ==
    IF Truthy(Eff("skipBlankRows"))
    THEN SelectSeq(rows, LAMBDA r : \E j \in DOMAIN r : r[j] # <<>>)
    ELSE rows
AfterComments(rows) ==
    IF Eff("commentPrefix") \in {PyNone, JStr("")} THEN rows
    ELSE SelectSeq(rows, LAMBDA r :
            r = <<>> \/ ~StartsWith(r[1], S(Eff("commentPrefix").s)))
AfterSkipColumns(rows) ==
    [i \in DOMAIN rows |->
        SubSeq(rows[i], Min(Eff("skipColumns").n, Len(rows[i])) + 1, Len(rows[i]))]
Surviving(on) ==
    AfterSkipColumns(AfterComments(AfterBlankRows(
        AfterRightTrim(AfterSkipRows(RawRows), on))))
\* the data rows of the table, the first surviving row being the header
DataOf(rows) ==
    IF rows = <<>> THEN <<>>
    ELSE [n \in 1..(Len(rows) - 1) |->
            RowDict(RenameHeader(TheTable.columns, column_names, rows[1]),
                    rows[n + 1], column_names)]
RightTrimOn == Eff("trim") \in {JBool(TRUE), JStr("end")}
\* what has been handed out is the start of `data`, and all of it at the end
HandsOut(data) ==
    /\ exc = "none"
    /\ Len(yielded) <= Len(data)
    /\ \A n \in DOMAIN yielded : yielded[n] = data[n]
    /\ pc = "returned" => Len(yielded) = Len(data)

\* C21: the rows are filtered in the order skipRows, right-trim,
\* skipBlankRows, comment filter, skipColumns; the first row that survives is
\* the header and every later surviving row is emitted as data.
C21_FiltersInFixedOrder ==
    (Ran /\ Declared) => HandsOut(DataOf(Surviving(RightTrimOn)))
\* the same with right-trim off
FiltersInOrderUntrimmed ==
    (Ran /\ Declared /\ ~RightTrimOn) => HandsOut(DataOf(Surviving(FALSE)))

\* C22: with right-trim active (trim resolves to true or "end") iterrows ends
\* normally and hands out the rows of the table whose cells have lost their
\* trailing whitespace before the blank-row, comment and projection steps.
C22_RightTrimStripsCells ==
    (Ran /\ Declared /\ RightTrimOn /\ RawRows # <<>>) =>
        /\ exc # "AttributeError"
        /\ pc # "raised"
        /\ pc = "returned" => yielded = DataOf(Surviving(TRUE))

\* ------------------------------------------- statements about the CSV parser
\* the parser of the entry that was opened
Parser == CsvReader(dialect)
\* delimiter and escape character follow the resolved dialect
DelimiterAndEscapeResolved ==
    (Ran /\ Declared /\ opened # <<>>) =>
        /\ Parser.delimiter = Eff("delimiter")
        /\ Parser.doublequote = Eff("doubleQuote")
        /\ Parser.escapechar =
              IF Eff("quoteChar") = PyNone \/ Truthy(Eff("doubleQuote"))
              THEN PyNone ELSE JStr("\\")
\* C23: the CSV parser is configured from the resolved dialect: its quote
\* character is the resolved quoteChar (no quoting when that is none), its
\* delimiter the resolved delimiter, its escape character none without
\* quoteChar or with doubleQuote and a backslash otherwise.
C23_ParserFollowsDialect ==
    (Ran /\ Declared /\ opened # <<>>) =>
        /\ IF Eff("quoteChar") = PyNone
           THEN Parser.quoting = "QUOTE_NONE"
           ELSE Parser.quoting # "QUOTE_NONE" /\ Parser.quotechar = Eff("quoteChar")
        /\ DelimiterAndEscapeResolved

\* ------------------------------------------------ statements about trimming
\* trim_column_ends is part of the chain: the first row pulled ends the call
RightTrimRuns == pc = "raised" /\ exc = "AttributeError"
TrimDefined == Eff("trim") # PyNone
\* C24 as stated: with trim defined, left-trim is on exactly for true and
\* "start", right-trim exactly for true and "end", whatever skipInitialSpace
\* is; with trim undefined, left-trim is skipInitialSpace and right-trim off.
C24_TrimResolution ==
    (Ran /\ Declared /\ opened # <<>>) =>
        IF TrimDefined
        THEN /\ Parser.skipinitialspace <=> Eff("trim") \in {JBool(TRUE), JStr("start")}
             /\ RightTrimRuns <=> Eff("trim") \in {JBool(TRUE), JStr("end")}
        ELSE /\ Parser.skipinitialspace <=> Truthy(Eff("skipInitialSpace"))
             /\ ~RightTrimRuns
\* the values that count as true: true, the number 1, the string "true"
CountsAsTrue(v) == v \in {JBool(TRUE), JNum(1), JStr("true")}
\* C24, amended: the string "true" (and the number 1) count as true.
C24_TrimResolutionWithTrueString ==
    (Ran /\ Declared /\ opened # <<>>) =>
        IF TrimDefined
        THEN /\ Parser.skipinitialspace <=>
                   (CountsAsTrue(Eff("trim")) \/ Eff("trim") = JStr("start"))
             /\ RightTrimRuns <=>
                   (CountsAsTrue(Eff("trim")) \/ Eff("trim") = JStr("end"))
        ELSE /\ Parser.skipinitialspace <=> Truthy(Eff("skipInitialSpace"))
             /\ ~RightTrimRuns
C24_Witness ==
    /\ pc = "suspended"
    /\ TheTable.dialect = One("trim", JBool(FALSE))
    /\ cldf_md.dialect = One("skipInitialSpace", JBool(TRUE))
    /\ ~Parser.skipinitialspace
    /\ yielded # <<>>

\* ----------------------------------------------- statements about cleanup
\* the files not-cldf.csv lists
Listed == {<<etc_not_cldf[i][1], etc_not_cldf[i][2]>> : i \in DOMAIN etc_not_cldf}
\* the answer is y or yes, in any case, with whitespace around it
SaidYes ==
    \E n \in 0..Len(answer), m \in 0..Len(answer) :
        /\ n <= m
        /\ \A i \in 1..n : answer[i] \in {" ", "\t", "\n"}
        /\ \A i \in (m + 1)..Len(answer) : answer[i] \in {" ", "\t", "\n"}
        /\ SubSeq(answer, n + 1, m) \in
              { <<"y">>, <<"Y">> } \cup
              { <<a, b, c>> : a \in {"y", "Y"}, b \in {"e", "E"}, c \in {"s", "S"} }
\* C25: cleanup deletes a file only if not-cldf.csv lists it, it existed when
\* the command started and the answer was y or yes; with another answer
\* nothing changes; after a confirmed run no listed file remains, no unlisted
\* file is gone, and a record directory is gone iff deleting the listed files
\* left it empty.
C25_CleanupDeletesOnlyListed ==
    /\ cl_exc = "none"
    /\ fs_files \subseteq fs_files0
    /\ fs_dirs \subseteq fs_dirs0
    /\ (fs_files0 \ fs_files) \subseteq Listed
    /\ (fs_files # fs_files0 \/ fs_dirs # fs_dirs0) => (cl_pc \in {"loop", "done"} /\ SaidYes)
    /\ (cl_pc = "done" /\ ~SaidYes) => (fs_files = fs_files0 /\ fs_dirs = fs_dirs0)
    /\ (cl_pc = "done" /\ SaidYes) =>
          /\ fs_files = fs_files0 \ Listed
          /\ \A d \in fs_dirs0 :
                d \notin fs_dirs <=>
                   /\ \E f \in fs_files0 \cap Listed : f[1] = d
                   /\ ~\E f \in fs_files0 \ Listed : f[1] = d
C25_Witness ==
    /\ cl_pc = "done"
    /\ answer = <<" ", "Y", "e", "s", "\n">>
    /\ Cardinality(fs_files0 \ fs_files) = 2
    /\ fs_dirs0 = {"101", "102"}
    /\ fs_dirs = {"102"}
    /\ fs_files = {<<"102", <<"keep", ".txt">>>>}

\* --------------------------------------- statements about language counts
\* the glottocode a dataset-local language id resolves to, "" when it has none
CodeOf(l) ==
    LET guess == raw_stats.langs[StrKey(l)]
    IN  IF \E n \in DOMAIN Languoids : Languoids[n].id = guess THEN guess
        ELSE IF \E n \in DOMAIN Languoids : Languoids[n].iso = guess /\ guess # ""
        THEN (CHOOSE x \in Range(Languoids) : x.iso = guess).id
        ELSE ""
\* the rows of a table whose language resolves to the glottocode g
RowsOf(langs, g) == Cardinality({i \in DOMAIN langs : CodeOf(langs[i]) = g})
ValueLangs == [i \in DOMAIN value_rows |-> value_rows[i][1]]
RECURSIVE SumOver(_, _)
SumOver(d, codes) ==
    IF codes = <<>> THEN 0 ELSE GetOr0(d, Head(codes)) + SumOver(d, Tail(codes))
Converted == gs_pc \in {"converted", "done"}
\* C26: for every glottocode g, each of lang_values, lang_forms, lang_entries
\* and lang_examples holds for g the sum of the counts of all local language
\* ids resolving to g; summed over the glottocodes, lang_values is the number
\* of value rows whose language resolves to a glottocode.
C26_CountsSummedPerGlottocode ==
    Converted =>
        /\ \A g \in Range(GlottologIds) :
              /\ GetOr0(glotto_stats.lang_values, g) = RowsOf(ValueLangs, g)
              /\ GetOr0(glotto_stats.lang_forms, g) = RowsOf(form_rows, g)
              /\ GetOr0(glotto_stats.lang_entries, g) = RowsOf(entry_rows, g)
              /\ GetOr0(glotto_stats.lang_examples, g) = RowsOf(example_rows, g)
        /\ SumOver(glotto_stats.lang_values, GlottologIds) =
              Cardinality({i \in DOMAIN value_rows : CodeOf(value_rows[i][1]) # ""})
\* the same for datasets in which no two language ids share a glottocode
CountsPerGlottocodeWhenUnshared ==
    (/\ Converted
     /\ \A k1, k2 \in DOMAIN raw_stats.langs :
           (k1 # k2 /\ CodeOf(k1.l) # "") => CodeOf(k1.l) # CodeOf(k2.l))
    => \A g \in Range(GlottologIds) :
          /\ GetOr0(glotto_stats.lang_values, g) = RowsOf(ValueLangs, g)
          /\ GetOr0(glotto_stats.lang_forms, g) = RowsOf(form_rows, g)
          /\ GetOr0(glotto_stats.lang_entries, g) = RowsOf(entry_rows, g)
          /\ GetOr0(glotto_stats.lang_examples, g) = RowsOf(example_rows, g)

\* C27: when some value row has a language resolving to the glottocode g and
\* a parameter, lang_features has an entry for g, and the Parameter_Count
\* written for g in dataset-languages.csv is greater than 0.
C27_ParameterCountPositive ==
    \A g \in Range(GlottologIds) :
        (/\ Converted
         /\ \E i \in DOMAIN value_rows :
               value_rows[i][2] # "" /\ CodeOf(value_rows[i][1]) = g)
        => /\ g \in DOMAIN glotto_stats.lang_features
           /\ gs_pc = "done" =>
                 \E n \in DOMAIN dataset_languages :
                    /\ dataset_languages[n].Language_ID = g
                    /\ dataset_languages[n].Parameter_Count > 0

\* ------------------------------------------- statements about cmd_download
\* the archives cmd_makecldf will look for: the zip files of the records
\* that are not blacklisted, but for those not-cldf.csv lists
Wanted ==
    UNION { { <<rec.id, rec.files[n].name>> :
                n \in {m \in DOMAIN rec.files : rec.files[m].type = "zip"} } :
            rec \in {r \in Range(zenodo_records) : ~r.blacklisted} }
        \ files_without_cldf
\* C28: when cmd_download returns normally, every zip file of every record
\* that is not blacklisted, unless not-cldf.csv lists it, is under
\* raw/datasets/<record id>/, whatever was there before and whatever the
\* servers answered.
C28_DownloadLeavesNothingMissing ==
    dl_pc = "done" => Wanted \subseteq raw_files
\* the same when raw/datasets held none of the records' files and no request
\* failed
NothingMissingOnFreshRun ==
    (/\ dl_pc = "done"
     /\ \A f \in raw_files : \E n \in DOMAIN written : f = <<written[n].id, written[n].name>>
     /\ \A i \in DOMAIN requests : requests[i] <= 1)
    => Wanted \subseteq raw_files

\* C29: download_all asks at most 3 times per url, yields at most one payload
\* per url, in url order, and neither asks for nor yields url i+1 unless it
\* yielded a payload for url i; so every file written holds the data
\* downloaded from its own url, and no data failing its checksum is written.
C29_PayloadsFollowUrls ==
    dl_pc # "call" =>
        /\ \A i \in DOMAIN requests : requests[i] <= 3
        /\ Len(payloads) <= Len(file_urls)
        /\ \A n \in DOMAIN payloads : payloads[n].of = n
        /\ \A i \in DOMAIN requests : requests[i] > 0 => Len(payloads) >= i - 1
        /\ \A n \in DOMAIN written :
              /\ written[n].data.intact
              /\ written[n].id = file_urls[written[n].data.of].id
              /\ written[n].name = file_urls[written[n].data.of].file.name
        /\ \A n \in DOMAIN payloads :
              ~payloads[n].intact =>
                 ~\E m \in DOMAIN written : written[m].data = payloads[n]
C29_Witness ==
    /\ dl_pc = "done"
    /\ Len(file_urls) = 3
    /\ requests = <<3, 2, 3>>
    /\ Len(written) = 2
    /\ written[2].name = ZipB.name

====
